---- MODULE Spec2Model ----
(***************************************************************************)
(* Line-oriented source-to-source converters of the code converter         *)
(* server (server/routes.ts): convertJavaScriptToSwift,                    *)
(* convertJavaScriptToPython, convertPythonToJavaScript and the dispatch   *)
(* on the language pair in the POST /api/convert handler.                  *)
(*                                                                         *)
(* Source text, lines and output are TLA+ strings; the JavaScript string   *)
(* methods and regular expressions the converters use are operators over   *)
(* Len / SubSeq / \o that compute what the JavaScript engine computes      *)
(* (leftmost match, greedy and lazy quantifiers, alternation order).       *)
(***************************************************************************)
EXTENDS Integers, Sequences, FiniteSets, TLC

(***************************************************************************)
(* Bounds of the model.                                                    *)
(***************************************************************************)
MaxLines == 3

(***************************************************************************)
(* JavaScript string primitives.                                           *)
(***************************************************************************)

\* \s of a JavaScript regular expression, restricted to the characters that
\* can occur inside one line.
WhiteSpace == {" ", "\t"}

\* \w of a JavaScript regular expression.
WordChars ==
  { "a", "b", "c", "d", "e", "f", "g", "h", "i", "j", "k", "l", "m",
    "n", "o", "p", "q", "r", "s", "t", "u", "v", "w", "x", "y", "z",
    "A", "B", "C", "D", "E", "F", "G", "H", "I", "J", "K", "L", "M",
    "N", "O", "P", "Q", "R", "S", "T", "U", "V", "W", "X", "Y", "Z",
    "0", "1", "2", "3", "4", "5", "6", "7", "8", "9", "_" }

Max(a, b) == IF a >= b THEN a ELSE b

\* s[k-1] in JavaScript (positions are 1-based here); "" outside the string.
CharAt(s, k) == IF k >= 1 /\ k <= Len(s) THEN SubSeq(s, k, k) ELSE ""

\* s.substring(k-1): the text from position k to the end.
Substring(s, k) == IF k > Len(s) THEN "" ELSE SubSeq(s, Max(k, 1), Len(s))

\* The literal p stands in s at position k.
MatchesAt(s, p, k) ==
  /\ k >= 1
  /\ k + Len(p) - 1 <= Len(s)
  /\ SubSeq(s, k, k + Len(p) - 1) = p

\* s.startsWith(p), s.endsWith(p), s.includes(p)
StartsWith(s, p) == MatchesAt(s, p, 1)
EndsWith(s, p) == MatchesAt(s, p, Len(s) - Len(p) + 1)

\* Position of the first occurrence of p in s at or after from; 0 when none.
RECURSIVE IndexOf(_, _, _)
IndexOf(s, p, from) ==
  IF from + Len(p) - 1 > Len(s) THEN 0
  ELSE IF MatchesAt(s, p, from) THEN from
  ELSE IndexOf(s, p, from + 1)

\* Position of the last occurrence of p in s that starts in from .. upto;
\* 0 when none.
RECURSIVE LastIndexIn(_, _, _, _)
LastIndexIn(s, p, from, upto) ==
  IF upto < from \/ upto < 1 THEN 0
  ELSE IF MatchesAt(s, p, upto) THEN upto
  ELSE LastIndexIn(s, p, from, upto - 1)

\* Position of the last occurrence of p in s at or after from; 0 when none.
LastIndexOf(s, p, from) == LastIndexIn(s, p, from, Len(s) - Len(p) + 1)

Includes(s, p) == IndexOf(s, p, 1) # 0

\* The first position at or after k that holds no white space (Len(s) + 1
\* when the rest is white space).
RECURSIVE SkipSpace(_, _)
SkipSpace(s, k) ==
  IF k <= Len(s) /\ CharAt(s, k) \in WhiteSpace THEN SkipSpace(s, k + 1) ELSE k

\* Position of the last character of s at or before k that is no white
\* space; 0 when none.
RECURSIVE LastNonSpace(_, _)
LastNonSpace(s, k) ==
  IF k >= 1 /\ CharAt(s, k) \in WhiteSpace THEN LastNonSpace(s, k - 1) ELSE k

Trim(s) ==
  LET first == SkipSpace(s, 1)
      last  == LastNonSpace(s, Len(s))
  IN  IF last < first THEN "" ELSE SubSeq(s, first, last)

\* s.repeat(n) for n >= 0 (a negative count raises RangeError, see
\* RepeatThrows).
RECURSIVE Repeat(_, _)
Repeat(s, n) == IF n <= 0 THEN "" ELSE s \o Repeat(s, n - 1)

\* String.prototype.repeat raises RangeError on a negative count.
RepeatThrows(n) == n < 0

\* s.split(sep)
RECURSIVE Split(_, _)
Split(s, sep) ==
  LET k == IndexOf(s, sep, 1)
  IN  IF k = 0 THEN << s >>
      ELSE << SubSeq(s, 1, k - 1) >> \o Split(Substring(s, k + Len(sep)), sep)

\* parts.join(sep)
RECURSIVE Join(_, _)
Join(parts, sep) ==
  IF Len(parts) = 0 THEN ""
  ELSE IF Len(parts) = 1 THEN parts[1]
  ELSE parts[1] \o sep \o Join(Tail(parts), sep)

\* Number of occurrences of the one-character string c in s.
RECURSIVE CountFrom(_, _, _)
CountFrom(s, c, k) ==
  LET h == IndexOf(s, c, k)
  IN  IF h = 0 THEN 0 ELSE 1 + CountFrom(s, c, h + 1)

CountChar(s, c) == CountFrom(s, c, 1)

(***************************************************************************)
(* Regular expressions.  A pattern is a sequence of elements; Match is the *)
(* backtracking matcher of the JavaScript engine for the constructs the    *)
(* converters use: literals, quantified character classes (greedy or       *)
(* lazy), capture groups, alternation in source order, back references     *)
(* and the anchors ^ and $.                                                *)
(***************************************************************************)

\* Character classes: the characters listed, or all but them.
Space    == [neg |-> FALSE, chars |-> WhiteSpace]             \* \s
NonSpace == [neg |-> TRUE,  chars |-> WhiteSpace]             \* \S
Word     == [neg |-> FALSE, chars |-> WordChars]              \* \w
Dot      == [neg |-> TRUE,  chars |-> { "\n", "\r" }]         \* .
Not(c)   == [neg |-> TRUE,  chars |-> { c }]                  \* [^c]
Only(c)  == [neg |-> FALSE, chars |-> { c }]                  \* c

InClass(ch, c) == ch # "" /\ ((ch \in c.chars) # c.neg)

\* Pattern elements.  A repetition takes between min and max characters of a
\* class (max = -1: no upper limit).
Lit(v)      == [t |-> "lit", v |-> v]
Rep(c, min, max, greedy) ==
  [t |-> "rep", c |-> c, min |-> min, max |-> max, greedy |-> greedy]
Star(c)     == Rep(c, 0, -1, TRUE)     \* c*
Plus(c)     == Rep(c, 1, -1, TRUE)     \* c+
LazyStar(c) == Rep(c, 0, -1, FALSE)    \* c*?
LazyPlus(c) == Rep(c, 1, -1, FALSE)    \* c+?
Maybe(c)    == Rep(c, 0, 1, TRUE)      \* c?
One(c)      == Rep(c, 1, 1, TRUE)      \* c
Open(n)     == [t |-> "open", n |-> n]     \* "(" of capture group n
Close(n)    == [t |-> "close", n |-> n]    \* ")" of capture group n
Alt(alts)   == [t |-> "alt", alts |-> alts] \* a|b|...: a sequence of patterns
Ref(n)      == [t |-> "ref", n |-> n]      \* \n
Start       == [t |-> "start"]             \* ^
End         == [t |-> "end"]               \* $

\* Capture groups are numbered 1 .. 6; a group that took no part in the match
\* has from = 0.
Groups == 1 .. 6
NoCaptures == [n \in Groups |-> [from |-> 0, to |-> 0]]
NoMatch == [ok |-> FALSE, index |-> 0, end |-> 0, caps |-> NoCaptures]

\* The text of capture group n ("" when the group took no part).
Captured(s, caps, n) ==
  IF caps[n].from = 0 THEN "" ELSE SubSeq(s, caps[n].from, caps[n].to - 1)

\* Number of consecutive characters of class c in s from position k, at most
\* max of them (max = -1: no limit).
RECURSIVE RunLength(_, _, _, _)
RunLength(s, k, c, max) ==
  IF max = 0 \/ ~InClass(CharAt(s, k), c) THEN 0
  ELSE 1 + RunLength(s, k + 1, c, IF max < 0 THEN max ELSE max - 1)

RECURSIVE Match(_, _, _, _), TryRep(_, _, _, _, _, _, _), TryAlt(_, _, _, _, _, _)

\* Match pattern pat on s from position k with the captures made so far;
\* the first success in backtracking order.
Match(s, k, pat, caps) ==
  IF Len(pat) = 0 THEN [ok |-> TRUE, index |-> 0, end |-> k, caps |-> caps]
  ELSE IF Head(pat).t = "lit"
  THEN IF MatchesAt(s, Head(pat).v, k)
       THEN Match(s, k + Len(Head(pat).v), Tail(pat), caps)
       ELSE NoMatch
  ELSE IF Head(pat).t = "rep"
  THEN TryRep(s, k,
              IF Head(pat).greedy
              THEN RunLength(s, k, Head(pat).c, Head(pat).max)
              ELSE Head(pat).min,
              IF Head(pat).greedy
              THEN Head(pat).min
              ELSE RunLength(s, k, Head(pat).c, Head(pat).max),
              IF Head(pat).greedy THEN -1 ELSE 1,
              Tail(pat), caps)
  ELSE IF Head(pat).t = "open"
  THEN Match(s, k, Tail(pat),
             [caps EXCEPT ![Head(pat).n] = [from |-> k, to |-> k]])
  ELSE IF Head(pat).t = "close"
  THEN Match(s, k, Tail(pat), [caps EXCEPT ![Head(pat).n].to = k])
  ELSE IF Head(pat).t = "alt"
  THEN TryAlt(s, k, Head(pat).alts, 1, Tail(pat), caps)
  ELSE IF Head(pat).t = "ref"
  THEN IF MatchesAt(s, Captured(s, caps, Head(pat).n), k)
       THEN Match(s, k + Len(Captured(s, caps, Head(pat).n)), Tail(pat), caps)
       ELSE NoMatch
  ELSE IF Head(pat).t = "start"
  THEN IF k = 1 THEN Match(s, k, Tail(pat), caps) ELSE NoMatch
  ELSE IF k = Len(s) + 1 THEN Match(s, k, Tail(pat), caps) ELSE NoMatch

\* A repetition that takes n characters, then n + step, ... up to last.
TryRep(s, k, n, last, step, rest, caps) ==
  IF (step < 0 /\ n < last) \/ (step > 0 /\ n > last) THEN NoMatch
  ELSE LET r == Match(s, k + n, rest, caps)
       IN  IF r.ok THEN r ELSE TryRep(s, k, n + step, last, step, rest, caps)

\* The alternatives alts[a], alts[a + 1], ..., each followed by rest.
TryAlt(s, k, alts, a, rest, caps) ==
  IF a > Len(alts) THEN NoMatch
  ELSE LET r == Match(s, k, alts[a] \o rest, caps)
       IN  IF r.ok THEN r ELSE TryAlt(s, k, alts, a + 1, rest, caps)

\* The leftmost match of pat in s that starts at or after position from.
RECURSIVE ExecFrom(_, _, _)
ExecFrom(s, pat, from) ==
  IF from > Len(s) + 1 THEN NoMatch
  ELSE IF from > 1 /\ Len(pat) > 0 /\ Head(pat).t = "start" THEN NoMatch
  ELSE LET r == Match(s, from, pat, NoCaptures)
       IN  IF r.ok THEN [r EXCEPT !.index = from]
           ELSE ExecFrom(s, pat, from + 1)

\* s.match(pat) for a pattern without the g flag: ok, the position of the
\* match (index), the position after it (end) and the captures.
Exec(s, pat) == ExecFrom(s, pat, 1)

\* pat.test(s), and s.match(pat) used as a condition.
Test(s, pat) == Exec(s, pat).ok

\* match[n]
Group(s, m, n) == Captured(s, m.caps, n)

\* s.search(pat): the 0-based position of the first match, -1 when none.
Search(s, pat) == IF Test(s, pat) THEN Exec(s, pat).index - 1 ELSE -1

\* s.replace(pat, text) for a pattern with the g flag whose matches are never
\* empty and a replacement text without group references.
RECURSIVE ReplaceAllFrom(_, _, _, _)
ReplaceAllFrom(s, pat, text, from) ==
  LET m == ExecFrom(s, pat, from)
  IN  IF ~m.ok THEN Substring(s, from)
      ELSE SubSeq(s, from, m.index - 1) \o text
             \o ReplaceAllFrom(s, pat, text, m.end)

ReplaceAll(s, pat, text) == ReplaceAllFrom(s, pat, text, 1)

(***************************************************************************)
(* The regular expressions of the converters, element by element.          *)
(***************************************************************************)

\* /function\s+(\w+)\s*\((.*?)\)/
FunctionTestRegex ==
  << Lit("function"), Plus(Space), Open(1), Plus(Word), Close(1), Star(Space),
     Lit("("), Open(2), LazyStar(Dot), Close(2), Lit(")") >>

\* /function\s+(\w+)\s*\((.*?)\)(.*)/
FunctionRegex == FunctionTestRegex \o << Open(3), Star(Dot), Close(3) >>

\* /^\s*(var|let|const)\s+(\w+)\s*=\s*
DeclarationHead ==
  << Start, Star(Space), Open(1),
     Alt(<< << Lit("var") >>, << Lit("let") >>, << Lit("const") >> >>),
     Close(1), Plus(Space), Open(2), Plus(Word), Close(2), Star(Space),
     Lit("="), Star(Space) >>

\* /^\s*(var|let|const)\s+(\w+)\s*=\s*(.+);?$/
DeclarationTestRegex ==
  DeclarationHead \o << Open(3), Plus(Dot), Close(3), Maybe(Only(";")), End >>

\* /^\s*(var|let|const)\s+(\w+)\s*=\s*(.+?);?$/
DeclarationRegex ==
  DeclarationHead
    \o << Open(3), LazyPlus(Dot), Close(3), Maybe(Only(";")), End >>

\* /^\[.*\]$/
ArrayTestRegex == << Start, Lit("["), Star(Dot), Lit("]"), End >>

\* /\[([^\]]*)\]/
ArrayRegex == << Lit("["), Open(1), Star(Not("]")), Close(1), Lit("]") >>

\* /^\s*if\s*\((.*)\).*{?$/
IfTestRegex ==
  << Start, Star(Space), Lit("if"), Star(Space), Lit("("), Open(1), Star(Dot),
     Close(1), Lit(")"), Star(Dot), Maybe(Only("{")), End >>

\* /^\s*if\s*\((.*)\)(.*)/
IfRegex ==
  << Start, Star(Space), Lit("if"), Star(Space), Lit("("), Open(1), Star(Dot),
     Close(1), Lit(")"), Open(2), Star(Dot), Close(2) >>

\* /===?/g
EqualsRegex == << Lit("=="), Maybe(Only("=")) >>

\* /!==?/g
NotEqualsRegex == << Lit("!="), Maybe(Only("=")) >>

\* /^\s*for\s*\(/
ForTestRegex == << Start, Star(Space), Lit("for"), Star(Space), Lit("(") >>

\* /for\s*\(\s*(let|var|const)?\s*(\w+)\s*=\s*([^;]+);\s*\2\s*(<|<=|>|>=)\s*
\*  ([^;]+);\s*\2(\+\+|\-\-|.=.*)\)/
ForLoopRegex ==
  << Lit("for"), Star(Space), Lit("("), Star(Space),
     Alt(<< << Open(1),
               Alt(<< << Lit("let") >>, << Lit("var") >>, << Lit("const") >> >>),
               Close(1) >>,
            << >> >>),
     Star(Space), Open(2), Plus(Word), Close(2), Star(Space), Lit("="),
     Star(Space), Open(3), Plus(Not(";")), Close(3), Lit(";"), Star(Space),
     Ref(2), Star(Space), Open(4),
     Alt(<< << Lit("<") >>, << Lit("<=") >>, << Lit(">") >>, << Lit(">=") >> >>),
     Close(4), Star(Space), Open(5), Plus(Not(";")), Close(5), Lit(";"),
     Star(Space), Ref(2), Open(6),
     Alt(<< << Lit("++") >>, << Lit("--") >>,
            << One(Dot), Lit("="), Star(Dot) >> >>),
     Close(6), Lit(")") >>

\* /console\.log\(/
ConsoleLogTestRegex == << Lit("console.log(") >>

\* /console\.log\((.*)\);?/
ConsoleLogRegex ==
  << Lit("console.log("), Open(1), Star(Dot), Close(1), Lit(")"),
     Maybe(Only(";")) >>

\* /^\s*return\s+/
ReturnTestRegex == << Start, Star(Space), Lit("return"), Plus(Space) >>

\* /return\s+(.+?);?$/
ReturnRegex ==
  << Lit("return"), Plus(Space), Open(1), LazyPlus(Dot), Close(1),
     Maybe(Only(";")), End >>

\* /;$/
SemicolonRegex == << Lit(";"), End >>

\* /\S|$/
NonSpaceOrEndRegex == << Alt(<< << One(NonSpace) >>, << End >> >>) >>

\* /^def\s+(\w+)\s*\((.*?)\):/
DefRegex ==
  << Start, Lit("def"), Plus(Space), Open(1), Plus(Word), Close(1),
     Star(Space), Lit("("), Open(2), LazyStar(Dot), Close(2), Lit("):") >>

\* /^if\s+(.+):/
PythonIfRegex ==
  << Start, Lit("if"), Plus(Space), Open(1), Plus(Dot), Close(1), Lit(":") >>

\* /^for\s+(\w+)\s+in\s+(.+):/
PythonForRegex ==
  << Start, Lit("for"), Plus(Space), Open(1), Plus(Word), Close(1),
     Plus(Space), Lit("in"), Plus(Space), Open(2), Plus(Dot), Close(2),
     Lit(":") >>

\* /range\((.+)\)/
RangeRegex == << Lit("range("), Open(1), Plus(Dot), Close(1), Lit(")") >>

\* /^print\s*\((.*)\)/
PrintRegex ==
  << Start, Lit("print"), Star(Space), Lit("("), Open(1), Star(Dot), Close(1),
     Lit(")") >>

\* /^(\w+)\s*=\s*(.+)/
AssignRegex ==
  << Start, Open(1), Plus(Word), Close(1), Star(Space), Lit("="), Star(Space),
     Open(2), Plus(Dot), Close(2) >>

\* /^return\s+(.+)/
PythonReturnRegex ==
  << Start, Lit("return"), Plus(Space), Open(1), Plus(Dot), Close(1) >>

(***************************************************************************)
(* String helpers built on the expressions.                                *)
(***************************************************************************)

\* line.search(/\S|$/): the number of leading white-space characters.
InitialSpaces(line) == Search(line, NonSpaceOrEndRegex)

\* s.replace(/;$/, "")
StripSemicolon(s) ==
  IF Test(s, SemicolonRegex) THEN SubSeq(s, 1, Exec(s, SemicolonRegex).index - 1)
  ELSE s

\* line.replace(/console\.log\((.*)\);?/, "print($1)")
ConsoleLogReplace(s) ==
  LET m == Exec(s, ConsoleLogRegex)
  IN  IF m.ok
      THEN SubSeq(s, 1, m.index - 1) \o "print(" \o Group(s, m, 1) \o ")"
             \o Substring(s, m.end)
      ELSE s

\* Variant of Condition that leaves the operators as they are.
ConditionUnchanged(c) == Trim(c)

\* condition.replace(/===?/g, "==").replace(/!==?/g, "!=") on match[1].trim()
Condition(c) ==
  ReplaceAll(ReplaceAll(Trim(c), EqualsRegex, "=="), NotEqualsRegex, "!=")

\* params.split(",").map(param => trimmed ? `${trimmed}: Any` : trimmed)
\*       .join(", ")
SwiftParams(params) ==
  LET parts == Split(params, ",")
  IN  Join([k \in 1 .. Len(parts) |->
              IF Trim(parts[k]) # "" THEN Trim(parts[k]) \o ": Any"
              ELSE Trim(parts[k])],
           ", ")

\* value.match(/^\[.*\]$/) ? value.replace(/\[([^\]]*)\]/, "[$1]") : value
SwiftArrayLiteral(value) ==
  LET m == Exec(value, ArrayRegex)
  IN  IF Test(value, ArrayTestRegex) /\ m.ok
      THEN SubSeq(value, 1, m.index - 1) \o "[" \o Group(value, m, 1) \o "]"
             \o Substring(value, m.end)
      ELSE value

(***************************************************************************)
(* convertJavaScriptToSwift: the conversion of one trimmed, non-blank,     *)
(* non-comment line.  Every branch yields the converted text and the value *)
(* of indentLevel after the branch; the caller indents the text with that  *)
(* value.                                                                  *)
(***************************************************************************)

\* Variant of DecreaseIndent without the clamp at 0.
DecreaseIndentUnclamped(indentLevel) == indentLevel - 1

\* Math.max(0, indentLevel - 1)
DecreaseIndent(indentLevel) == Max(0, indentLevel - 1)

\* match[n] && match[n].includes("{")
HasBrace(rest) == rest # "" /\ Includes(rest, "{")

SwiftFunction(line, indentLevel) ==
  LET match == Exec(line, FunctionRegex)
      head  == "func " \o Group(line, match, 1) \o "("
                 \o SwiftParams(Group(line, match, 2)) \o ")"
  IN  IF ~match.ok THEN [text |-> line, indentLevel |-> indentLevel]
      ELSE IF HasBrace(Group(line, match, 3))
      THEN [text |-> head \o " {", indentLevel |-> indentLevel + 1]
      ELSE [text |-> head, indentLevel |-> indentLevel]

SwiftVariable(line, indentLevel) ==
  LET match == Exec(line, DeclarationRegex)
  IN  IF ~match.ok THEN [text |-> line, indentLevel |-> indentLevel]
      ELSE [text |-> (IF Group(line, match, 1) = "const" THEN "let" ELSE "var")
                       \o " " \o Group(line, match, 2) \o " = "
                       \o SwiftArrayLiteral(Group(line, match, 3)),
            indentLevel |-> indentLevel]

SwiftIf(line, indentLevel) ==
  LET match == Exec(line, IfRegex)
      head  == "if " \o Condition(Group(line, match, 1))
  IN  IF ~match.ok THEN [text |-> line, indentLevel |-> indentLevel]
      ELSE IF HasBrace(Group(line, match, 2))
      THEN [text |-> head \o " {", indentLevel |-> indentLevel + 1]
      ELSE [text |-> head, indentLevel |-> indentLevel]

\* The text of the for line for varName, startVal, operator, endVal.
SwiftRange(v, startVal, operator, endVal) ==
  IF operator = "<" THEN "for " \o v \o " in " \o startVal \o "..<" \o endVal \o " {"
  ELSE IF operator = "<="
  THEN "for " \o v \o " in " \o startVal \o "..." \o endVal \o " {"
  ELSE "// Note: This for loop might need manual adjustment\n"
         \o "for " \o v \o " in " \o startVal \o "..<" \o endVal
         \o " { // Original condition was " \o v \o " " \o operator \o " "
         \o endVal

SwiftForLoop(line, indentLevel) ==
  LET forLoopMatch == Exec(line, ForLoopRegex)
  IN  IF forLoopMatch.ok
      THEN [text |-> SwiftRange(Group(line, forLoopMatch, 2),
                                Group(line, forLoopMatch, 3),
                                Group(line, forLoopMatch, 4),
                                Group(line, forLoopMatch, 5)),
            indentLevel |-> indentLevel + 1]
      ELSE [text |-> "// MANUAL CONVERSION NEEDED: " \o line,
            indentLevel |-> indentLevel]

SwiftReturn(line, indentLevel) ==
  LET match == Exec(line, ReturnRegex)
  IN  [text |-> IF match.ok THEN "return " \o Group(line, match, 1) ELSE line,
       indentLevel |-> indentLevel]

\* The if / else-if chain of the loop body, in the order of the source.
SwiftStatement(line, indentLevel) ==
  IF Test(line, FunctionTestRegex) THEN SwiftFunction(line, indentLevel)
  ELSE IF line = "{" THEN [text |-> "{", indentLevel |-> indentLevel + 1]
  ELSE IF line = "}"
       THEN [text |-> "}", indentLevel |-> DecreaseIndent(indentLevel)]
  ELSE IF Test(line, DeclarationTestRegex) THEN SwiftVariable(line, indentLevel)
  ELSE IF Test(line, IfTestRegex) THEN SwiftIf(line, indentLevel)
  ELSE IF Test(line, ForTestRegex) THEN SwiftForLoop(line, indentLevel)
  ELSE IF Test(line, ConsoleLogTestRegex)
       THEN [text |-> ConsoleLogReplace(line), indentLevel |-> indentLevel]
  ELSE IF Test(line, ReturnTestRegex) THEN SwiftReturn(line, indentLevel)
  ELSE [text |-> line, indentLevel |-> indentLevel]

(***************************************************************************)
(* convertJavaScriptToPython: the conversion of one trimmed, non-blank,    *)
(* non-comment line.  Every branch yields the converted text and           *)
(* newIndentLevel; the caller indents the text with the old indentLevel    *)
(* and then stores newIndentLevel.                                         *)
(***************************************************************************)

PythonFunction(line, indentLevel) ==
  LET match == Exec(line, FunctionRegex)
  IN  IF ~match.ok THEN [text |-> line, newIndentLevel |-> indentLevel]
      ELSE [text |-> "def " \o Group(line, match, 1) \o "("
                       \o Group(line, match, 2) \o "):",
            newIndentLevel |-> indentLevel + 1]

PythonVariable(line, indentLevel) ==
  LET match == Exec(line, DeclarationRegex)
  IN  [text |-> IF ~match.ok THEN line
                ELSE StripSemicolon(Group(line, match, 2) \o " = "
                                      \o Group(line, match, 3)),
       newIndentLevel |-> indentLevel]

PythonIf(line, indentLevel) ==
  LET match == Exec(line, IfRegex)
  IN  IF ~match.ok THEN [text |-> line, newIndentLevel |-> indentLevel]
      ELSE [text |-> "if " \o Condition(Group(line, match, 1)) \o ":",
            newIndentLevel |-> indentLevel + 1]

\* Variant of PythonForLoop that opens a block for every for line.
PythonForLoopAlwaysOpens(line, indentLevel) ==
  [text |-> "# MANUAL CONVERSION NEEDED: " \o line,
   newIndentLevel |-> indentLevel + 1]

PythonForLoop(line, indentLevel) ==
  LET forLoopMatch == Exec(line, ForLoopRegex)
  IN  IF forLoopMatch.ok
      THEN [text |-> "for " \o Group(line, forLoopMatch, 2) \o " in range("
                       \o Group(line, forLoopMatch, 3) \o ", "
                       \o Group(line, forLoopMatch, 5) \o "):",
            newIndentLevel |-> indentLevel + 1]
      ELSE [text |-> "# MANUAL CONVERSION NEEDED: " \o line,
            newIndentLevel |-> indentLevel]

\* Variant of PythonReturn that leaves the line as it is.
PythonReturnUnchanged(line, indentLevel) ==
  [text |-> line, newIndentLevel |-> indentLevel]

PythonReturn(line, indentLevel) ==
  LET match == Exec(line, ReturnRegex)
  IN  [text |-> IF match.ok THEN "return " \o Group(line, match, 1) ELSE line,
       newIndentLevel |-> indentLevel]

\* Variant of PythonStatement that converts no line to the empty string.
PythonStatementKeepsBraces(line, indentLevel) ==
  [text |-> line, newIndentLevel |-> indentLevel]

\* The if / else-if chain of the loop body, in the order of the source.
PythonStatement(line, indentLevel) ==
  IF Test(line, FunctionTestRegex) THEN PythonFunction(line, indentLevel)
  ELSE IF line = "{" THEN [text |-> "", newIndentLevel |-> indentLevel + 1]
  ELSE IF line = "}"
       THEN [text |-> "", newIndentLevel |-> DecreaseIndent(indentLevel)]
  ELSE IF Test(line, DeclarationTestRegex) THEN PythonVariable(line, indentLevel)
  ELSE IF Test(line, IfTestRegex) THEN PythonIf(line, indentLevel)
  ELSE IF Test(line, ForTestRegex) THEN PythonForLoop(line, indentLevel)
  ELSE IF Test(line, ConsoleLogTestRegex)
       THEN [text |-> ConsoleLogReplace(line), newIndentLevel |-> indentLevel]
  ELSE IF Test(line, ReturnTestRegex) THEN PythonReturn(line, indentLevel)
  ELSE [text |-> StripSemicolon(line), newIndentLevel |-> indentLevel]

\* The flag inFunction after the line: set by a function declaration, cleared
\* by a bare "}".
InFunctionAfter(line, inFunction) ==
  IF Test(line, FunctionTestRegex) THEN Exec(line, FunctionRegex).ok \/ inFunction
  ELSE IF line = "}" THEN FALSE
  ELSE inFunction

(***************************************************************************)
(* convertPythonToJavaScript: the conversion of one trimmed, non-blank,    *)
(* non-comment line.                                                       *)
(***************************************************************************)

\* rangeMatch[1].split(",").map(arg => arg.trim())
RangeArgs(args) ==
  LET parts == Split(args, ",")
  IN  [k \in 1 .. Len(parts) |-> Trim(parts[k])]

\* The for line for a range(...) iterable with the given arguments;
\* trimmedLine when their number is not 1, 2 or 3.
JavaScriptRange(v, rangeArgs, trimmedLine) ==
  IF Len(rangeArgs) = 1
  THEN "for (let " \o v \o " = 0; " \o v \o " < " \o rangeArgs[1] \o "; " \o v
         \o "++) {"
  ELSE IF Len(rangeArgs) = 2
  THEN "for (let " \o v \o " = " \o rangeArgs[1] \o "; " \o v \o " < "
         \o rangeArgs[2] \o "; " \o v \o "++) {"
  ELSE IF Len(rangeArgs) = 3
  THEN "for (let " \o v \o " = " \o rangeArgs[1] \o "; " \o v \o " < "
         \o rangeArgs[2] \o "; " \o v \o " += " \o rangeArgs[3] \o ") {"
  ELSE trimmedLine

JavaScriptForLoop(trimmedLine) ==
  LET match      == Exec(trimmedLine, PythonForRegex)
      iterable   == Group(trimmedLine, match, 2)
      rangeMatch == Exec(iterable, RangeRegex)
  IN  IF ~match.ok THEN trimmedLine
      ELSE IF rangeMatch.ok
      THEN JavaScriptRange(Group(trimmedLine, match, 1),
                           RangeArgs(Group(iterable, rangeMatch, 1)),
                           trimmedLine)
      ELSE "for (let " \o Group(trimmedLine, match, 1) \o " of " \o iterable
             \o ") {"

\* The text of a line that matched pat as prefix \o match[1] \o middle \o
\* match[2] \o suffix (match[2] only when the pattern has a second group).
Rewrite(trimmedLine, pat, prefix, middle, suffix) ==
  LET match == Exec(trimmedLine, pat)
  IN  IF ~match.ok THEN trimmedLine
      ELSE prefix \o Group(trimmedLine, match, 1) \o middle
             \o Group(trimmedLine, match, 2) \o suffix

\* Variant of JavaScriptStatement that tests for an assignment before it
\* tests for if, for and print.
JavaScriptStatementAssignmentFirst(trimmedLine) ==
  IF Test(trimmedLine, DefRegex)
  THEN Rewrite(trimmedLine, DefRegex, "function ", "(", ") {")
  ELSE IF Test(trimmedLine, AssignRegex)
  THEN Rewrite(trimmedLine, AssignRegex, "let ", " = ", ";")
  ELSE IF Test(trimmedLine, PythonIfRegex)
  THEN "if (" \o Trim(Group(trimmedLine, Exec(trimmedLine, PythonIfRegex), 1))
         \o ") {"
  ELSE IF Test(trimmedLine, PythonForRegex) THEN JavaScriptForLoop(trimmedLine)
  ELSE IF Test(trimmedLine, PrintRegex)
  THEN Rewrite(trimmedLine, PrintRegex, "console.log(", "", ");")
  ELSE IF Test(trimmedLine, PythonReturnRegex)
  THEN Rewrite(trimmedLine, PythonReturnRegex, "return ", "", ";")
  ELSE IF /\ ~EndsWith(trimmedLine, ":")
          /\ ~EndsWith(trimmedLine, "{")
          /\ ~EndsWith(trimmedLine, "}")
  THEN trimmedLine \o ";"
  ELSE trimmedLine

\* The if / else-if chain of the loop body, in the order of the source.
JavaScriptStatement(trimmedLine) ==
  IF Test(trimmedLine, DefRegex)
  THEN Rewrite(trimmedLine, DefRegex, "function ", "(", ") {")
  ELSE IF Test(trimmedLine, PythonIfRegex)
  THEN "if (" \o Trim(Group(trimmedLine, Exec(trimmedLine, PythonIfRegex), 1))
         \o ") {"
  ELSE IF Test(trimmedLine, PythonForRegex) THEN JavaScriptForLoop(trimmedLine)
  ELSE IF Test(trimmedLine, PrintRegex)
  THEN Rewrite(trimmedLine, PrintRegex, "console.log(", "", ");")
  ELSE IF Test(trimmedLine, AssignRegex)
  THEN Rewrite(trimmedLine, AssignRegex, "let ", " = ", ";")
  ELSE IF Test(trimmedLine, PythonReturnRegex)
  THEN Rewrite(trimmedLine, PythonReturnRegex, "return ", "", ";")
  ELSE IF /\ ~EndsWith(trimmedLine, ":")
          /\ ~EndsWith(trimmedLine, "{")
          /\ ~EndsWith(trimmedLine, "}")
  THEN trimmedLine \o ";"
  ELSE trimmedLine

\* Variant of Top that reads the base entry.
Bottom(stack) == stack[1]

\* indentStack[indentStack.length - 1]
Top(stack) == stack[Len(stack)]

\* Variant of Pop that removes nothing.
PopNothing(stack) == stack

\* indentStack after indentStack.pop()
Pop(stack) == SubSeq(stack, 1, Len(stack) - 1)

\* Variant of DedentCondition that also pops a level of the line's own width.
DedentConditionAtOrAbove(stack, initialSpaces) ==
  Len(stack) > 1 /\ Top(stack) >= initialSpaces

\* The condition of the dedent loop:
\* indentStack.length > 1 && indentStack[indentStack.length - 1] > initialSpaces
DedentCondition(stack, initialSpaces) ==
  Len(stack) > 1 /\ Top(stack) > initialSpaces

\* Variant of FlushCondition that also pops the base entry.
FlushConditionPopsBase(stack) == Len(stack) > 0

\* Variant of FlushCondition that closes no level.
FlushConditionNever(stack) == FALSE

\* Variant of FlushCondition that leaves the first level open.
FlushConditionAboveFirst(stack) == Len(stack) > 2

\* The condition of the loop that closes the remaining levels at the end of
\* the input: indentStack.length > 1
FlushCondition(stack) == Len(stack) > 1

\* Variant of ClosingLine without indentation.
ClosingLineFlat(stack) == "}"

\* The line pushed after a pop: "  ".repeat(indentStack.length - 1) + "}"
ClosingLine(stack) == Repeat("  ", Len(stack) - 1) \o "}"

\* Variant of FallbackCode without the newline after the header.
FallbackCodeOnOneLine(from, to, code) ==
  "// Converted from " \o from \o " to " \o to \o code

\* `// Converted from ${sourceLanguage} to ${targetLanguage}\n${sourceCode}`
FallbackCode(from, to, code) ==
  "// Converted from " \o from \o " to " \o to \o "\n" \o code

(***************************************************************************)
(* Requests.  A request is a source text with its source and target        *)
(* language; the source text is a sequence of at most MaxLines lines       *)
(* joined by newlines.                                                     *)
(***************************************************************************)

Languages == { "javascript", "python", "swift", "java", "rust" }

\* Lines of the JavaScript sources given to convertJavaScriptToSwift.
SwiftSourceLines ==
  { "if (x === 5) {",
    "  console.log(\"hi\");",
    "}",
    "{",
    "for (let i = 0; i < 10; i++) {",
    "for (let i = 0; i <= 10; i++)",
    "// note",
    "" }

\* Lines of the JavaScript sources given to convertJavaScriptToPython.
PythonSourceLines ==
  { "function add(a, b) {",
    "  return a + b;",
    "}",
    "{",
    "for (let i = 0; i < 10; i++) {",
    "  console.log(i);",
    "  for (;;)",
    "for (let i = 0; i <= 10; i++)",
    "// note",
    "" }

\* Lines of the Python sources given to convertPythonToJavaScript.
JavaScriptSourceLines ==
  { "def add(a, b):",
    "    return a + b",
    "if x == 5:",
    "        y = 1",
    "for i in range(3):",
    "  # note",
    "",
    "  z()",
    "x = 1" }

\* Lines of the sources of the other language pairs.
OtherSourceLines == { "fn main() {", "}", "" }

\* All sequences of at most n lines drawn from pool.
RECURSIVE LineSeqs(_, _)
LineSeqs(pool, n) ==
  IF n = 0 THEN { << >> }
  ELSE LET shorter == LineSeqs(pool, n - 1)
       IN  shorter \cup { Append(ls, l) : ls \in shorter, l \in pool }

\* The source texts of 1 .. MaxLines lines drawn from pool.
Sources(pool) == { Join(ls, "\n") : ls \in LineSeqs(pool, MaxLines) \ { << >> } }

SupportedPairs ==
  { << "javascript", "swift" >>, << "javascript", "python" >>,
    << "python", "javascript" >> }

\* The validated requests from one language to another with lines from pool.
Requests(from, to, pool) ==
  { [sourceCode |-> c, sourceLanguage |-> from, targetLanguage |-> to] :
      c \in Sources(pool) }

SwiftRequests      == Requests("javascript", "swift", SwiftSourceLines)
PythonRequests     == Requests("javascript", "python", PythonSourceLines)
JavaScriptRequests == Requests("python", "javascript", JavaScriptSourceLines)
OtherRequests ==
  UNION { Requests(p[1], p[2], OtherSourceLines) :
            p \in (Languages \X Languages) \ SupportedPairs }

(***************************************************************************)
(* State.                                                                  *)
(***************************************************************************)
VARIABLES
  sourceCode,      \* validatedData.sourceCode
  sourceLanguage,  \* validatedData.sourceLanguage
  targetLanguage,  \* validatedData.targetLanguage
  pc,              \* where the handler is
  lines,           \* sourceCode.split("\n") of the running converter
  i,               \* index of the next line (1-based)
  indentLevel,     \* indentLevel of the two JavaScript-source converters
  inFunction,      \* inFunction of convertJavaScriptToPython
  indentStack,     \* indentStack of convertPythonToJavaScript
  currentIndent,   \* currentIndent of convertPythonToJavaScript
  convertedLines,  \* convertedLines of the running converter
  convertedCode,   \* convertedCode of the handler, once assigned
  pushes,          \* number of indentStack.push calls so far
  closes,          \* number of "}" lines pushed after indentStack.pop so far
  maxDepth,        \* largest indentStack.length - 1 so far
  valid,           \* whether convertCodeSchema.parse(req.body) succeeds
  status,          \* HTTP status of the answer, 0 while there is none
  served,          \* number of requests the server answered before this one
  suspended        \* the calls of the handler that are in progress besides
                   \* the running one, each with its own variables

vars ==
  << sourceCode, sourceLanguage, targetLanguage, pc, lines, i, indentLevel,
     inFunction, indentStack, currentIndent, convertedLines, convertedCode,
     pushes, closes, maxDepth, valid, status, served, suspended >>

request == << sourceCode, sourceLanguage, targetLanguage >>
locals  == << lines, i, indentLevel, inFunction, indentStack, currentIndent,
              convertedLines >>
history == << pushes, closes, maxDepth >>
server  == << valid, status, served, suspended >>

\* The handler has validated one of the requests rs and is about to dispatch.
Validated(rs) ==
  /\ \E r \in rs :
       /\ sourceCode = r.sourceCode
       /\ sourceLanguage = r.sourceLanguage
       /\ targetLanguage = r.targetLanguage
  /\ pc = "handler"
  /\ lines = << >>
  /\ i = 1
  /\ indentLevel = 0
  /\ inFunction = FALSE
  /\ indentStack = << 0 >>
  /\ currentIndent = 0
  /\ convertedLines = << >>
  /\ convertedCode = ""
  /\ pushes = 0
  /\ closes = 0
  /\ maxDepth = 0
  /\ valid = TRUE
  /\ status = 0
  /\ served = 0
  /\ suspended = << >>

(***************************************************************************)
(* The dispatch of the POST /api/convert handler on the language pair.     *)
(***************************************************************************)

\* Entry of a converter whose indentLevel would be declared outside the
\* function: the value the previous call left is still there.
EnterKeepsLevel(converter) ==
  /\ pc' = converter
  /\ lines' = Split(sourceCode, "\n")
  /\ i' = 1
  /\ inFunction' = FALSE
  /\ indentStack' = << 0 >>
  /\ currentIndent' = 0
  /\ convertedLines' = << >>
  /\ UNCHANGED << request, server, indentLevel, convertedCode, history >>

\* Entry of a converter: the declarations before its loop.
Enter(converter) ==
  /\ pc' = converter
  /\ lines' = Split(sourceCode, "\n")
  /\ i' = 1
  /\ indentLevel' = 0
  /\ inFunction' = FALSE
  /\ indentStack' = << 0 >>
  /\ currentIndent' = 0
  /\ convertedLines' = << >>
  /\ UNCHANGED << request, server, convertedCode, history >>

CallJavaScriptToSwift ==
  /\ pc = "handler"
  /\ sourceLanguage = "javascript" /\ targetLanguage = "swift"
  /\ Enter("convertJavaScriptToSwift")

CallJavaScriptToPython ==
  /\ pc = "handler"
  /\ ~(sourceLanguage = "javascript" /\ targetLanguage = "swift")
  /\ sourceLanguage = "javascript" /\ targetLanguage = "python"
  /\ Enter("convertJavaScriptToPython")

CallPythonToJavaScript ==
  /\ pc = "handler"
  /\ ~(sourceLanguage = "javascript" /\ targetLanguage = "swift")
  /\ ~(sourceLanguage = "javascript" /\ targetLanguage = "python")
  /\ sourceLanguage = "python" /\ targetLanguage = "javascript"
  /\ Enter("convertPythonToJavaScript")

Fallback ==
  /\ pc = "handler"
  /\ ~(sourceLanguage = "javascript" /\ targetLanguage = "swift")
  /\ ~(sourceLanguage = "javascript" /\ targetLanguage = "python")
  /\ ~(sourceLanguage = "python" /\ targetLanguage = "javascript")
  /\ convertedCode' = FallbackCode(sourceLanguage, targetLanguage, sourceCode)
  /\ pc' = "converted"
  /\ UNCHANGED << request, server, locals, history >>

\* return convertedLines.join("\n") of any of the three converters, assigned
\* to convertedCode by the handler.
Return ==
  /\ convertedCode' = Join(convertedLines, "\n")
  /\ pc' = "converted"
  /\ UNCHANGED << request, server, locals, history >>

\* An exception leaves the converter (RangeError of String.prototype.repeat).
Throw ==
  /\ pc' = "thrown"
  /\ UNCHANGED << request, server, lines, i, inFunction, indentStack,
                  currentIndent, convertedLines, convertedCode, history >>

(***************************************************************************)
(* convertJavaScriptToSwift: one iteration of the loop, and the return.    *)
(***************************************************************************)

JavaScriptToSwiftLine ==
  /\ pc = "convertJavaScriptToSwift"
  /\ i <= Len(lines)
  /\ \E line \in { Trim(lines[i]) } :
     \E r \in { SwiftStatement(line, indentLevel) } :
         IF line = ""
         THEN /\ convertedLines' = Append(convertedLines, "")
              /\ i' = i + 1
              /\ UNCHANGED << pc, indentLevel >>
         ELSE IF StartsWith(line, "//")
         THEN /\ convertedLines' =
                   Append(convertedLines, Repeat("  ", indentLevel) \o line)
              /\ i' = i + 1
              /\ UNCHANGED << pc, indentLevel >>
         ELSE IF RepeatThrows(r.indentLevel)
         THEN indentLevel' = r.indentLevel /\ Throw
         ELSE /\ indentLevel' = r.indentLevel
              /\ convertedLines' =
                   Append(convertedLines,
                          Repeat("  ", r.indentLevel) \o r.text)
              /\ i' = i + 1
              /\ UNCHANGED pc
  /\ UNCHANGED << request, server, lines, inFunction, indentStack,
                  currentIndent, convertedCode, history >>

JavaScriptToSwiftReturn ==
  /\ pc = "convertJavaScriptToSwift"
  /\ i > Len(lines)
  /\ Return

(***************************************************************************)
(* convertJavaScriptToPython: one iteration of the loop, and the return.   *)
(***************************************************************************)

JavaScriptToPythonLine ==
  /\ pc = "convertJavaScriptToPython"
  /\ i <= Len(lines)
  /\ \E line \in { Trim(lines[i]) } :
     \E r \in { PythonStatement(line, indentLevel) } :
         IF line = ""
         THEN /\ convertedLines' = Append(convertedLines, "")
              /\ i' = i + 1
              /\ UNCHANGED << pc, indentLevel, inFunction >>
         ELSE IF RepeatThrows(indentLevel) /\ (StartsWith(line, "//") \/ r.text # "")
         THEN UNCHANGED indentLevel /\ Throw
         ELSE IF StartsWith(line, "//")
         THEN /\ convertedLines' =
                   Append(convertedLines,
                          Repeat("    ", indentLevel) \o "# "
                            \o Substring(line, 3))
              /\ i' = i + 1
              /\ UNCHANGED << pc, indentLevel, inFunction >>
         ELSE /\ convertedLines' =
                   IF r.text # ""
                   THEN Append(convertedLines,
                               Repeat("    ", indentLevel) \o r.text)
                   ELSE convertedLines
              /\ indentLevel' = r.newIndentLevel
              /\ inFunction' = InFunctionAfter(line, inFunction)
              /\ i' = i + 1
              /\ UNCHANGED pc
  /\ UNCHANGED << request, server, lines, indentStack, currentIndent,
                  convertedCode, history >>

JavaScriptToPythonReturn ==
  /\ pc = "convertJavaScriptToPython"
  /\ i > Len(lines)
  /\ Return

(***************************************************************************)
(* convertPythonToJavaScript.  The loop body is split at its inner while   *)
(* loop: a blank or comment line is one step; a code line is zero or more  *)
(* pops of the dedent loop followed by the step that emits the line.       *)
(* pc = "dedent" while the dedent loop of line i is running.               *)
(***************************************************************************)

\* Variant of IsCodeLine that takes a comment for code.
IsCodeLineOrComment(line) == Trim(line) # ""

\* The line the loop is at is neither blank nor a comment.
IsCodeLine(line) == Trim(line) # "" /\ ~StartsWith(Trim(line), "#")

PythonToJavaScriptBlank ==
  /\ pc = "convertPythonToJavaScript"
  /\ i <= Len(lines)
  /\ Trim(lines[i]) = ""
  /\ convertedLines' = Append(convertedLines, "")
  /\ i' = i + 1
  /\ UNCHANGED << request, server, pc, lines, indentLevel, inFunction,
                  indentStack, currentIndent, convertedCode, history >>

PythonToJavaScriptComment ==
  /\ pc = "convertPythonToJavaScript"
  /\ i <= Len(lines)
  /\ Trim(lines[i]) # ""
  /\ StartsWith(Trim(lines[i]), "#")
  /\ IF RepeatThrows(Len(indentStack) - 1)
     THEN UNCHANGED indentLevel /\ Throw
     ELSE /\ convertedLines' =
               Append(convertedLines,
                      Repeat("  ", Len(indentStack) - 1) \o "// "
                        \o Substring(Trim(lines[i]), 2))
          /\ i' = i + 1
          /\ UNCHANGED << request, server, pc, lines, indentLevel, inFunction,
                          indentStack, currentIndent, convertedCode, history >>

\* indentStack.pop() followed by the push of the closing line.
PopAndClose ==
  IF RepeatThrows(Len(Pop(indentStack)) - 1)
  THEN UNCHANGED indentLevel /\ Throw
  ELSE /\ indentStack' = Pop(indentStack)
       /\ convertedLines' = Append(convertedLines, ClosingLine(Pop(indentStack)))
       /\ closes' = closes + 1
       /\ UNCHANGED << request, server, lines, i, indentLevel, inFunction,
                       currentIndent, convertedCode, pushes, maxDepth >>

\* One iteration of the dedent loop.
PythonToJavaScriptDedent ==
  /\ i <= Len(lines)
  /\ \/ /\ pc = "convertPythonToJavaScript"
        /\ IsCodeLine(lines[i])
        /\ InitialSpaces(lines[i]) < currentIndent
     \/ pc = "dedent"
  /\ DedentCondition(indentStack, InitialSpaces(lines[i]))
  /\ PopAndClose
  /\ pc' = IF RepeatThrows(Len(Pop(indentStack)) - 1) THEN "thrown" ELSE "dedent"

\* The rest of the loop body once the dedent loop is over (or was not
\* entered): currentIndent, the push of a new level, the conversion of the
\* line and its output.
PythonToJavaScriptEmit ==
  /\ i <= Len(lines)
  /\ \/ /\ pc = "convertPythonToJavaScript"
        /\ IsCodeLine(lines[i])
        /\ ~(/\ InitialSpaces(lines[i]) < currentIndent
             /\ DedentCondition(indentStack, InitialSpaces(lines[i])))
     \/ /\ pc = "dedent"
        /\ ~DedentCondition(indentStack, InitialSpaces(lines[i]))
  /\ \E initialSpaces \in { InitialSpaces(lines[i]) } :
     LET pushed == initialSpaces > Top(indentStack)
         stack  == IF pushed THEN Append(indentStack, initialSpaces)
                   ELSE indentStack
     IN  /\ currentIndent' = initialSpaces
         /\ indentStack' = stack
         /\ pushes' = IF pushed THEN pushes + 1 ELSE pushes
         /\ maxDepth' = Max(maxDepth, Len(stack) - 1)
         /\ convertedLines' =
              Append(convertedLines,
                     Repeat("  ", Len(stack) - 1)
                       \o JavaScriptStatement(Trim(lines[i])))
  /\ i' = i + 1
  /\ pc' = "convertPythonToJavaScript"
  /\ UNCHANGED << request, server, lines, indentLevel, inFunction,
                  convertedCode, closes >>

\* One iteration of the loop that closes the remaining indent levels.
PythonToJavaScriptFlush ==
  /\ pc = "convertPythonToJavaScript"
  /\ i > Len(lines)
  /\ FlushCondition(indentStack)
  /\ PopAndClose
  /\ pc' = IF RepeatThrows(Len(Pop(indentStack)) - 1) THEN "thrown" ELSE pc

PythonToJavaScriptReturn ==
  /\ pc = "convertPythonToJavaScript"
  /\ i > Len(lines)
  /\ ~FlushCondition(indentStack)
  /\ Return

Init ==
  Validated(SwiftRequests \cup PythonRequests \cup JavaScriptRequests
              \cup OtherRequests)

Next ==
  \/ CallJavaScriptToSwift
  \/ CallJavaScriptToPython
  \/ CallPythonToJavaScript
  \/ Fallback
  \/ JavaScriptToSwiftLine
  \/ JavaScriptToSwiftReturn
  \/ JavaScriptToPythonLine
  \/ JavaScriptToPythonReturn
  \/ PythonToJavaScriptBlank
  \/ PythonToJavaScriptComment
  \/ PythonToJavaScriptDedent
  \/ PythonToJavaScriptEmit
  \/ PythonToJavaScriptFlush
  \/ PythonToJavaScriptReturn

\* Requests of every language pair.
Spec == Init /\ [][Next]_vars

\* A step of a call that has not finished: it changes pc, moves the main loop
\* to the next line or emits a synthetic "}".  Every step of Next is one.
Progress ==
  /\ pc \notin { "converted", "thrown" }
  /\ \E p \in { "convertJavaScriptToSwift", "convertJavaScriptToPython",
                "convertPythonToJavaScript", "dedent", "converted",
                "thrown" },
        di \in { 0, 1 }, dc \in { 0, 1 } :
       /\ pc' = p /\ i' = i + di /\ closes' = closes + dc
       /\ p # pc \/ di = 1 \/ dc = 1

\* The handler and the converters are synchronous code that the event loop
\* runs to completion: a call that has not finished takes its next step.
SpecFair == Spec /\ WF_<< pc, i, closes >>(Progress)

\* Requests from JavaScript to Swift.
InitSwift == Validated(SwiftRequests)
NextSwift ==
  \/ CallJavaScriptToSwift
  \/ JavaScriptToSwiftLine
  \/ JavaScriptToSwiftReturn
SpecSwift == InitSwift /\ [][NextSwift]_vars

\* Requests from JavaScript to Python.
InitPython == Validated(PythonRequests)
NextPython ==
  \/ CallJavaScriptToPython
  \/ JavaScriptToPythonLine
  \/ JavaScriptToPythonReturn
SpecPython == InitPython /\ [][NextPython]_vars

\* Requests from Python to JavaScript.
InitJavaScript == Validated(JavaScriptRequests)
NextJavaScript ==
  \/ CallPythonToJavaScript
  \/ PythonToJavaScriptBlank
  \/ PythonToJavaScriptComment
  \/ PythonToJavaScriptDedent
  \/ PythonToJavaScriptEmit
  \/ PythonToJavaScriptFlush
  \/ PythonToJavaScriptReturn
SpecJavaScript == InitJavaScript /\ [][NextJavaScript]_vars

\* Requests of the language pairs without a converter.
InitOther == Validated(OtherRequests)
NextOther == Fallback
SpecOther == InitOther /\ [][NextOther]_vars

(***************************************************************************)
(* The POST /api/convert handler around the conversion: the validation of  *)
(* the body, the answer, and the next request of the same server process.  *)
(* A converter's variables keep the values the previous call left until    *)
(* the declarations of the next call (Enter) replace them.                 *)
(***************************************************************************)

\* Number of requests one server process is followed for.
MaxRequests == 2

\* Number of calls of the handler in progress together.
MaxCalls == 2

Request(code, from, to) ==
  [sourceCode |-> code, sourceLanguage |-> from, targetLanguage |-> to]

\* Requests that leave every variable of every converter changed.
ServerRequests ==
  { Request("if (x === 5) {", "javascript", "swift"),
    Request("}\nlet y = 1;", "javascript", "swift"),
    Request("function f(a) {\n  return a;", "javascript", "python"),
    Request("}\nconsole.log(i);", "javascript", "python"),
    Request("    return a + b\nx = 1", "python", "javascript"),
    Request("  # note\n\n  z()", "python", "javascript"),
    Request("fn main() {", "java", "rust") }

\* Requests whose calls are followed together.
ConcurrentRequests ==
  { Request("if (x === 5) {\nlet y = 1;", "javascript", "swift"),
    Request("function f(a) {\n  return a;", "javascript", "python"),
    Request("    return a + b", "python", "javascript") }

\* The status of the outer catch block, whatever the error is.
ErrorStatusAlways500(zodError) == 500

\* The status of the outer catch block.
ErrorStatus(zodError) == IF zodError THEN 400 ELSE 500

\* A request has arrived; nothing of the handler has run.
Received(rs) ==
  /\ \E r \in rs :
       /\ sourceCode = r.sourceCode
       /\ sourceLanguage = r.sourceLanguage
       /\ targetLanguage = r.targetLanguage
  /\ valid \in BOOLEAN
  /\ pc = "received"
  /\ lines = << >>
  /\ i = 1
  /\ indentLevel = 0
  /\ inFunction = FALSE
  /\ indentStack = << 0 >>
  /\ currentIndent = 0
  /\ convertedLines = << >>
  /\ convertedCode = ""
  /\ pushes = 0
  /\ closes = 0
  /\ maxDepth = 0
  /\ status = 0
  /\ served = 0
  /\ suspended = << >>

\* convertCodeSchema.parse(req.body) returns; let convertedCode = "".
Validate ==
  /\ pc = "received"
  /\ valid
  /\ pc' = "handler"
  /\ convertedCode' = ""
  /\ UNCHANGED << request, server, locals, history >>

\* convertCodeSchema.parse(req.body) throws a ZodError, which the outer catch
\* block answers.
ValidationError ==
  /\ pc = "received"
  /\ ~valid
  /\ pc' = "responded"
  /\ status' = ErrorStatus(TRUE)
  /\ UNCHANGED << request, locals, convertedCode, history, valid, served,
                  suspended >>

\* res.json(result): of the inner try block once convertedCode is assigned,
\* of the inner catch block once a converter has thrown.  res.json leaves
\* the status of the response at 200.
Respond ==
  /\ pc \in { "converted", "thrown" }
  /\ pc' = "responded"
  /\ status' = 200
  /\ UNCHANGED << request, locals, convertedCode, history, valid, served,
                  suspended >>

\* The next request of the same process arrives after the answer.
NextRequest ==
  /\ pc = "responded"
  /\ served + 1 < MaxRequests
  /\ \E r \in ServerRequests :
       /\ sourceCode' = r.sourceCode
       /\ sourceLanguage' = r.sourceLanguage
       /\ targetLanguage' = r.targetLanguage
  /\ valid' \in BOOLEAN
  /\ pc' = "received"
  /\ status' = 0
  /\ served' = served + 1
  /\ pushes' = 0
  /\ closes' = 0
  /\ maxDepth' = 0
  /\ UNCHANGED << locals, convertedCode, suspended >>

NextServer ==
  \/ Validate
  \/ ValidationError
  \/ Next
  \/ Respond
  \/ NextRequest

\* One server process answering MaxRequests requests one after the other.
SpecServer == Received(ServerRequests) /\ [][NextServer]_vars

(***************************************************************************)
(* Calls of the handler in progress together.  Every call has its own      *)
(* validatedData and its own activation of a converter, hence its own      *)
(* copy of each variable declared there; one call runs at a time, and      *)
(* another one may take over between any two steps.  (The handler does not *)
(* await anything between the validation and the answer, so Node.js itself *)
(* runs the calls one after the other; the interleaving here is that of    *)
(* request-handling threads.)                                              *)
(***************************************************************************)

\* The variables of the running call.
Frame ==
  [sourceCode |-> sourceCode, sourceLanguage |-> sourceLanguage,
   targetLanguage |-> targetLanguage, pc |-> pc, lines |-> lines, i |-> i,
   indentLevel |-> indentLevel, inFunction |-> inFunction,
   indentStack |-> indentStack, currentIndent |-> currentIndent,
   convertedLines |-> convertedLines, convertedCode |-> convertedCode,
   pushes |-> pushes, closes |-> closes, maxDepth |-> maxDepth]

\* The variables of a call that has validated request r.
NewCall(r) ==
  [sourceCode |-> r.sourceCode, sourceLanguage |-> r.sourceLanguage,
   targetLanguage |-> r.targetLanguage, pc |-> "handler", lines |-> << >>,
   i |-> 1, indentLevel |-> 0, inFunction |-> FALSE, indentStack |-> << 0 >>,
   currentIndent |-> 0, convertedLines |-> << >>, convertedCode |-> "",
   pushes |-> 0, closes |-> 0, maxDepth |-> 0]

\* The call with variables f runs, were indentLevel one variable of the
\* module that all calls share.
LoadSharedLevel(f) ==
  /\ sourceCode' = f.sourceCode
  /\ sourceLanguage' = f.sourceLanguage
  /\ targetLanguage' = f.targetLanguage
  /\ pc' = f.pc
  /\ lines' = f.lines
  /\ i' = f.i
  /\ indentLevel' = indentLevel
  /\ inFunction' = f.inFunction
  /\ indentStack' = f.indentStack
  /\ currentIndent' = f.currentIndent
  /\ convertedLines' = f.convertedLines
  /\ convertedCode' = f.convertedCode
  /\ pushes' = f.pushes
  /\ closes' = f.closes
  /\ maxDepth' = f.maxDepth

\* The call with variables f runs.
Load(f) ==
  /\ sourceCode' = f.sourceCode
  /\ sourceLanguage' = f.sourceLanguage
  /\ targetLanguage' = f.targetLanguage
  /\ pc' = f.pc
  /\ lines' = f.lines
  /\ i' = f.i
  /\ indentLevel' = f.indentLevel
  /\ inFunction' = f.inFunction
  /\ indentStack' = f.indentStack
  /\ currentIndent' = f.currentIndent
  /\ convertedLines' = f.convertedLines
  /\ convertedCode' = f.convertedCode
  /\ pushes' = f.pushes
  /\ closes' = f.closes
  /\ maxDepth' = f.maxDepth

\* A request arrives and is validated while other calls are in progress.
Arrive ==
  /\ Len(suspended) + 1 < MaxCalls
  /\ suspended' = Append(suspended, Frame)
  /\ \E r \in ConcurrentRequests : Load(NewCall(r))
  /\ UNCHANGED << valid, status, served >>

\* Another call in progress takes over.
Switch ==
  /\ \E k \in 1 .. Len(suspended) :
       /\ suspended' = [suspended EXCEPT ![k] = Frame]
       /\ Load(suspended[k])
  /\ UNCHANGED << valid, status, served >>

NextConcurrent ==
  \/ Arrive
  \/ Switch
  \/ CallJavaScriptToSwift
  \/ CallJavaScriptToPython
  \/ CallPythonToJavaScript
  \/ JavaScriptToSwiftLine
  \/ JavaScriptToSwiftReturn
  \/ JavaScriptToPythonLine
  \/ JavaScriptToPythonReturn
  \/ PythonToJavaScriptEmit
  \/ PythonToJavaScriptFlush
  \/ PythonToJavaScriptReturn

\* MaxCalls calls of the handler in every interleaving of their steps.
SpecConcurrent == Validated(ConcurrentRequests) /\ [][NextConcurrent]_vars

(***************************************************************************)
(* Requests of one statement each, covering the forms of for loops, of if  *)
(* conditions and of lines that more than one branch of a converter's      *)
(* if / else-if chain would accept.                                        *)
(***************************************************************************)

\* if lines of JavaScript, one per comparison operator.
IfLines ==
  { "if (a === b) {", "if (a !== b) {", "if (a == b) {", "if (a != b) {",
    "if (a <= b) {", "if (a >= b) {", "if (a === b && c !== d) {" }

StatementRequests ==
  { Request(l, "javascript", "swift") :
      l \in IfLines \cup
        { "for (let i = 0; i < 10; i++) {",
          "for (let i = 0; i <= 10; i++) {",
          "for (let i = 9; i > 0; i--) {",
          "for (let i = 9; i >= 0; i--) {" } }
    \cup
  { Request(l, "javascript", "python") :
      l \in IfLines \cup
        { "// function f() {",
          "const f = function g(a) {",
          "if (console.log(x)) {",
          "return console.log(x);",
          "{\n;\n\n}" } }
    \cup
  { Request(l, "python", "javascript") :
      l \in { "for i in range(3):",
              "for i in range(1, 3):",
              "for i in range(1, 9, 2):",
              "for x in items:",
              "for i in range(max(a, b)):",
              "for i in reversed(range(3)):",
              "# def f():",
              "if = a[1:2]",
              "return = 5",
              "  # note\n\n    y()\n  z()" } }
    \cup
  { Request("fn main() {", "java", "rust") }

\* Requests of one statement each.
SpecStatements == Validated(StatementRequests) /\ [][Next]_vars

(***************************************************************************)
(* The converters as functions of their argument.  Each converter declares *)
(* its variables in its own body and reads nothing else, so its result is  *)
(* the fold of its loop body over the lines, started from those             *)
(* declarations.                                                           *)
(***************************************************************************)

\* The lines convertJavaScriptToSwift pushes for lines k .. of ls when
\* indentLevel is level before line k.
RECURSIVE SwiftFrom(_, _, _)
SwiftFrom(ls, k, level) ==
  IF k > Len(ls) THEN << >>
  ELSE LET line == Trim(ls[k])
           r    == SwiftStatement(line, level)
       IN  IF line = "" THEN << "" >> \o SwiftFrom(ls, k + 1, level)
           ELSE IF StartsWith(line, "//")
           THEN << Repeat("  ", level) \o line >> \o SwiftFrom(ls, k + 1, level)
           ELSE << Repeat("  ", r.indentLevel) \o r.text >>
                  \o SwiftFrom(ls, k + 1, r.indentLevel)

\* The lines convertJavaScriptToPython pushes for lines k .. of ls when
\* indentLevel is level before line k.
RECURSIVE PythonFrom(_, _, _)
PythonFrom(ls, k, level) ==
  IF k > Len(ls) THEN << >>
  ELSE LET line == Trim(ls[k])
           r    == PythonStatement(line, level)
       IN  IF line = "" THEN << "" >> \o PythonFrom(ls, k + 1, level)
           ELSE IF StartsWith(line, "//")
           THEN << Repeat("    ", level) \o "# " \o Substring(line, 3) >>
                  \o PythonFrom(ls, k + 1, level)
           ELSE (IF r.text # "" THEN << Repeat("    ", level) \o r.text >>
                 ELSE << >>)
                  \o PythonFrom(ls, k + 1, r.newIndentLevel)

\* The lines convertPythonToJavaScript pushes for lines k .. of ls and at the
\* end of the input when indentStack is stack and currentIndent is indent
\* before line k.
RECURSIVE JavaScriptFrom(_, _, _, _)
JavaScriptFrom(ls, k, stack, indent) ==
  IF k > Len(ls)
  THEN IF FlushCondition(stack)
       THEN << ClosingLine(Pop(stack)) >>
              \o JavaScriptFrom(ls, k, Pop(stack), indent)
       ELSE << >>
  ELSE LET line          == Trim(ls[k])
           initialSpaces == InitialSpaces(ls[k])
           pushed        == IF initialSpaces > Top(stack)
                            THEN Append(stack, initialSpaces) ELSE stack
       IN  IF line = "" THEN << "" >> \o JavaScriptFrom(ls, k + 1, stack, indent)
           ELSE IF StartsWith(line, "#")
           THEN << Repeat("  ", Len(stack) - 1) \o "// " \o Substring(line, 2) >>
                  \o JavaScriptFrom(ls, k + 1, stack, indent)
           ELSE IF initialSpaces < indent /\ DedentCondition(stack, initialSpaces)
           THEN << ClosingLine(Pop(stack)) >>
                  \o JavaScriptFrom(ls, k, Pop(stack), indent)
           ELSE << Repeat("  ", Len(pushed) - 1) \o JavaScriptStatement(line) >>
                  \o JavaScriptFrom(ls, k + 1, pushed, initialSpaces)

\* convertedCode of the handler for a validated request.
TargetCode(code, from, to) ==
  IF from = "javascript" /\ to = "swift"
  THEN Join(SwiftFrom(Split(code, "\n"), 1, 0), "\n")
  ELSE IF from = "javascript" /\ to = "python"
  THEN Join(PythonFrom(Split(code, "\n"), 1, 0), "\n")
  ELSE IF from = "python" /\ to = "javascript"
  THEN Join(JavaScriptFrom(Split(code, "\n"), 1, << 0 >>, 0), "\n")
  ELSE FallbackCode(from, to, code)


(***************************************************************************)
(* The converters of src/server/github-api.ts, which convertCodeWithGitHub *)
(* calls once its request to the GitHub API is over.  Each is given as the *)
(* state of its variables after the loop body has run for lines j .. k of  *)
(* ls, started from the given state.  The branches of the loop bodies are  *)
(* the statements of SwiftStatement, PythonStatement and                   *)
(* JavaScriptStatement, whose text the two files share.                    *)
(***************************************************************************)

\* convertJavaScriptToSwift of github-api.ts.
RECURSIVE GitHubJavaScriptToSwift(_, _, _, _, _)
GitHubJavaScriptToSwift(ls, j, k, level, out) ==
  IF j > k THEN [indentLevel |-> level, convertedLines |-> out]
  ELSE LET line == Trim(ls[j])
           r    == SwiftStatement(line, level)
       IN  IF line = ""
           THEN GitHubJavaScriptToSwift(ls, j + 1, k, level, Append(out, ""))
           ELSE IF StartsWith(line, "//")
           THEN GitHubJavaScriptToSwift(ls, j + 1, k, level,
                  Append(out, Repeat("  ", level) \o line))
           ELSE GitHubJavaScriptToSwift(ls, j + 1, k, r.indentLevel,
                  Append(out, Repeat("  ", r.indentLevel) \o r.text))

\* convertJavaScriptToPython of github-api.ts.
RECURSIVE GitHubJavaScriptToPython(_, _, _, _, _, _)
GitHubJavaScriptToPython(ls, j, k, level, inFn, out) ==
  IF j > k
  THEN [indentLevel |-> level, inFunction |-> inFn, convertedLines |-> out]
  ELSE LET line == Trim(ls[j])
           r    == PythonStatement(line, level)
       IN  IF line = ""
           THEN GitHubJavaScriptToPython(ls, j + 1, k, level, inFn,
                  Append(out, ""))
           ELSE IF StartsWith(line, "//")
           THEN GitHubJavaScriptToPython(ls, j + 1, k, level, inFn,
                  Append(out, Repeat("    ", level) \o "# "
                                \o Substring(line, 3)))
           ELSE GitHubJavaScriptToPython(ls, j + 1, k, r.newIndentLevel,
                  InFunctionAfter(line, inFn),
                  IF r.text # ""
                  THEN Append(out, Repeat("    ", level) \o r.text)
                  ELSE out)

\* convertPythonToJavaScript of github-api.ts; with flush, the loop that
\* closes the remaining levels has run as well.
RECURSIVE GitHubPythonToJavaScript(_, _, _, _, _, _, _)
GitHubPythonToJavaScript(ls, j, k, flush, stack, indent, out) ==
  IF j > k
  THEN IF flush /\ FlushCondition(stack)
       THEN GitHubPythonToJavaScript(ls, j, k, flush, Pop(stack), indent,
              Append(out, ClosingLine(Pop(stack))))
       ELSE [indentStack |-> stack, currentIndent |-> indent,
             convertedLines |-> out]
  ELSE LET line          == Trim(ls[j])
           initialSpaces == InitialSpaces(ls[j])
           pushed        == IF initialSpaces > Top(stack)
                            THEN Append(stack, initialSpaces) ELSE stack
       IN  IF line = ""
           THEN GitHubPythonToJavaScript(ls, j + 1, k, flush, stack, indent,
                  Append(out, ""))
           ELSE IF StartsWith(line, "#")
           THEN GitHubPythonToJavaScript(ls, j + 1, k, flush, stack, indent,
                  Append(out, Repeat("  ", Len(stack) - 1) \o "// "
                                \o Substring(line, 2)))
           ELSE IF initialSpaces < indent /\ DedentCondition(stack, initialSpaces)
           THEN GitHubPythonToJavaScript(ls, j, k, flush, Pop(stack), indent,
                  Append(out, ClosingLine(Pop(stack))))
           ELSE GitHubPythonToJavaScript(ls, j + 1, k, flush, pushed,
                  initialSpaces,
                  Append(out, Repeat("  ", Len(pushed) - 1)
                                \o JavaScriptStatement(line)))

\* Variant of GitHubTargetCode without the branch for Swift.
GitHubTargetCodeNoSwift(code, from, to) ==
  LET ls == Split(code, "\n")
  IN  IF from = "javascript" /\ to = "python"
      THEN Join(GitHubJavaScriptToPython(ls, 1, Len(ls), 0, FALSE, << >>)
                  .convertedLines, "\n")
      ELSE IF from = "python" /\ to = "javascript"
      THEN Join(GitHubPythonToJavaScript(ls, 1, Len(ls), TRUE, << 0 >>, 0,
                                         << >>).convertedLines, "\n")
      ELSE "// Converted from " \o from \o " to " \o to \o "\n" \o code

\* convertedCode of the catch block of convertCodeWithGitHub.
GitHubTargetCode(code, from, to) ==
  LET ls == Split(code, "\n")
  IN  IF from = "javascript" /\ to = "python"
      THEN Join(GitHubJavaScriptToPython(ls, 1, Len(ls), 0, FALSE, << >>)
                  .convertedLines, "\n")
      ELSE IF from = "javascript" /\ to = "swift"
      THEN Join(GitHubJavaScriptToSwift(ls, 1, Len(ls), 0, << >>)
                  .convertedLines, "\n")
      ELSE IF from = "python" /\ to = "javascript"
      THEN Join(GitHubPythonToJavaScript(ls, 1, Len(ls), TRUE, << 0 >>, 0,
                                         << >>).convertedLines, "\n")
      ELSE "// Converted from " \o from \o " to " \o to \o "\n" \o code

(***************************************************************************)
(* Properties.                                                             *)
(***************************************************************************)

Last(seq) == seq[Len(seq)]

\* C1: in all three converters the indentation depth is never negative:
\* indentLevel of the two JavaScript-source converters stays >= 0 (a bare "}"
\* at depth 0 leaves it at 0), and indentStack of convertPythonToJavaScript
\* always keeps its base entry 0, so indentStack.length - 1 >= 0.
IndentNeverNegative ==
  /\ indentLevel >= 0
  /\ Len(indentStack) >= 1
  /\ indentStack[1] = 0

\* convertJavaScriptToPython has processed a bare "}" as its first line.
ClosingBraceAtDepthZero ==
  /\ pc = "convertJavaScriptToPython"
  /\ i = 2
  /\ Trim(lines[1]) = "}"
  /\ indentLevel = 0

\* C2: for JavaScript to Swift, when the source has as many "{" as "}", the
\* output has as many "{" as "}".
SwiftBraceBalance ==
  (/\ pc = "converted"
   /\ sourceLanguage = "javascript" /\ targetLanguage = "swift"
   /\ CountChar(sourceCode, "{") = CountChar(sourceCode, "}"))
    => CountChar(convertedCode, "{") = CountChar(convertedCode, "}")

\* A brace-balanced for loop whose "{" is on its own line is converted to
\* text with two "{" and one "}".
SwiftForLoopUnbalanced ==
  /\ pc = "converted"
  /\ sourceCode = "for (let i = 0; i <= 10; i++)\n{\n}"
  /\ CountChar(convertedCode, "{") = 2
  /\ CountChar(convertedCode, "}") = 1

\* C3 as stated: for Python to JavaScript, the number of closing "}" lines
\* in the whole output equals the largest indentStack.length - 1 reached.
ClosesEqualMaxDepth ==
  (pc = "converted" /\ sourceLanguage = "python" /\ targetLanguage = "javascript")
    => closes = maxDepth

\* C3, amended: for Python to JavaScript, the number of closing "}" lines in
\* the whole output is at least the largest depth reached, and equals it
\* exactly when every push opened a level deeper than any before it (the
\* number of pushes equals the largest depth).
ClosesAtLeastMaxDepth ==
  (pc = "converted" /\ sourceLanguage = "python" /\ targetLanguage = "javascript")
    => /\ closes >= maxDepth
       /\ closes = maxDepth <=> pushes = maxDepth

\* A level is closed and entered again: two closing lines at largest depth 1.
LevelClosedTwice ==
  /\ pc = "converted"
  /\ sourceCode = "    return a + b\nx = 1\n    return a + b"
  /\ closes = 2
  /\ maxDepth = 1

\* C4: JavaScript to Swift of the three lines "if (x === 5) {",
\* "  console.log("hi");", "}" yields exactly "if x == 5 {" without leading
\* spaces, "  print("hi")" with two leading spaces, "}" without leading
\* spaces.
SwiftIfScenario ==
  (/\ pc = "converted"
   /\ sourceLanguage = "javascript" /\ targetLanguage = "swift"
   /\ sourceCode = "if (x === 5) {\n  console.log(\"hi\");\n}")
    => convertedCode = "if x == 5 {\n  print(\"hi\")\n}"

\* The if line is indented at the depth it opens.
SwiftIfLineIndented ==
  /\ pc = "converted"
  /\ sourceCode = "if (x === 5) {\n  console.log(\"hi\");\n}"
  /\ convertedCode = "  if x == 5 {\n  print(\"hi\")\n}"

\* C5: for every language pair other than javascript to python, javascript
\* to swift and python to javascript, the target code is exactly
\* "// Converted from <sourceLanguage> to <targetLanguage>", a newline and the
\* unmodified source; it is not empty and contains the source.
FallbackGuarantee ==
  (pc = "converted" /\ << sourceLanguage, targetLanguage >> \notin SupportedPairs)
    => /\ convertedCode = "// Converted from " \o sourceLanguage \o " to "
                            \o targetLanguage \o "\n" \o sourceCode
       /\ convertedCode # ""
       /\ Includes(convertedCode, sourceCode)

\* A request from java to rust has been answered.
JavaToRustConverted ==
  /\ pc = "converted"
  /\ sourceLanguage = "java" /\ targetLanguage = "rust"
  /\ sourceCode = "fn main() {\n}"
  /\ convertedCode = "// Converted from java to rust\nfn main() {\n}"

\* C6: for every source and each of the three supported pairs the converter
\* returns without throwing: the count given to repeat is never negative and
\* no failed match is dereferenced.
NeverThrows == pc # "thrown"

\* convertPythonToJavaScript has returned for a source that dedents to a
\* width that was never a level.
MalformedSourceConverted ==
  /\ pc = "converted"
  /\ sourceLanguage = "python" /\ targetLanguage = "javascript"
  /\ sourceCode = "        y = 1\n  z()"
  /\ convertedCode = "  let y = 1;\n}\n  z();\n}"

\* C7: for Python to JavaScript, at the end of the input each iteration of
\* the flush loop pops the innermost open level and emits one "}" line
\* indented 2 spaces per level that remains, the converter returns with
\* indentStack = [0], and "def add(a, b):", "    return a + b" yields exactly
\* "function add(a, b) {", "  return a + b;", "}".
FlushClosesOpenLevels ==
  /\ [][(/\ pc = "convertPythonToJavaScript"
         /\ i > Len(lines)
         /\ Len(indentStack) > 1)
          => /\ indentStack' = SubSeq(indentStack, 1, Len(indentStack) - 1)
             /\ convertedLines' =
                  Append(convertedLines,
                         Repeat("  ", Len(indentStack) - 2) \o "}")]_vars
  /\ [](pc = "converted" => indentStack = << 0 >>)
  /\ []((pc = "converted" /\ sourceCode = "def add(a, b):\n    return a + b")
          => convertedCode = "function add(a, b) {\n  return a + b;\n}")

\* The flush has closed the function of the two-line source.
FunctionFlushed ==
  /\ pc = "converted"
  /\ sourceCode = "def add(a, b):\n    return a + b"
  /\ convertedCode = "function add(a, b) {\n  return a + b;\n}"
  /\ closes = 1

\* The iteration of the loop of convertJavaScriptToPython on a line whose
\* trimmed text is line.
PythonIterationOn(line) ==
  /\ pc = "convertJavaScriptToPython"
  /\ i <= Len(lines)
  /\ Trim(lines[i]) = line

\* The iteration adds exactly the line text at the depth in force before it.
PythonEmits(text) ==
  convertedLines' = Append(convertedLines, Repeat("    ", indentLevel) \o text)

\* C8: for JavaScript to Python, a function declaration with trailing "{" is
\* emitted as "def name(params):" at the depth in force before it and opens
\* one level, a body line is emitted indented 4 spaces per level with its
\* trailing ";" removed, a line that is only "{" or only "}" adds no output
\* line, and "function add(a, b) {", "  return a + b;", "}" yields exactly
\* "def add(a, b):", "    return a + b".
PythonFunctionAndBody ==
  /\ [][/\ PythonIterationOn("function add(a, b) {")
          => PythonEmits("def add(a, b):") /\ indentLevel' = indentLevel + 1
        /\ PythonIterationOn("return a + b;") => PythonEmits("return a + b")
        /\ PythonIterationOn("console.log(i);") => PythonEmits("print(i)")
        /\ (PythonIterationOn("{") \/ PythonIterationOn("}"))
          => convertedLines' = convertedLines]_vars
  /\ []((pc = "converted"
          /\ sourceCode = "function add(a, b) {\n  return a + b;\n}")
          => convertedCode = "def add(a, b):\n    return a + b")

\* The function of the three-line source has been converted.
PythonFunctionConverted ==
  /\ pc = "converted"
  /\ sourceCode = "function add(a, b) {\n  return a + b;\n}"
  /\ convertedCode = "def add(a, b):\n    return a + b"
  /\ indentLevel = 0

\* C9: for JavaScript to Python, a for line of the three-clause form
\* for (v = start; v OP end; v++) with OP one of <, <=, >, >= is emitted as
\* "for v in range(start, end):" with end the expression after OP, the lines
\* after it are one level deeper, and "for (let i = 0; i < 10; i++) {",
\* "  console.log(i);", "}" yields exactly "for i in range(0, 10):",
\* "    print(i)".
PythonForLoopRange ==
  /\ (/\ pc = "convertJavaScriptToPython"
      /\ i > 1
      /\ Trim(lines[i - 1]) \in { "for (let i = 0; i < 10; i++) {",
                                  "for (let i = 0; i <= 10; i++)" })
       => /\ indentLevel >= 1
          /\ Last(convertedLines) =
               Repeat("    ", indentLevel - 1) \o "for i in range(0, 10):"
  /\ (pc = "converted"
       /\ sourceCode = "for (let i = 0; i < 10; i++) {\n  console.log(i);\n}")
       => convertedCode = "for i in range(0, 10):\n    print(i)"

\* The bound of a loop with <= keeps the "=" of the operator.
PythonForLoopBoundKeepsEquals ==
  /\ pc = "converted"
  /\ sourceCode = "for (let i = 0; i <= 10; i++)"
  /\ convertedCode = "for i in range(0, = 10):"

\* C10: for JavaScript to Python, a line that starts with "for (" and does
\* not match the three-clause form is emitted as
\* "# MANUAL CONVERSION NEEDED: " followed by the trimmed line, and leaves
\* the depth unchanged.
PythonForLoopMarker ==
  [][(/\ pc = "convertJavaScriptToPython"
      /\ i <= Len(lines)
      /\ StartsWith(Trim(lines[i]), "for (")
      /\ ~Test(Trim(lines[i]), ForLoopRegex))
       => /\ PythonEmits("# MANUAL CONVERSION NEEDED: " \o Trim(lines[i]))
          /\ indentLevel' = indentLevel]_vars

\* "  for (;;)" has been processed at depth 1.
PythonForLoopMarked ==
  /\ pc = "convertJavaScriptToPython"
  /\ i = 3
  /\ lines[1] = "{" /\ lines[2] = "  for (;;)"
  /\ convertedLines = << "    # MANUAL CONVERSION NEEDED: for (;;)" >>
  /\ indentLevel = 1

\* C11: conversion is deterministic.  The code a call of the handler assigns
\* to convertedCode is a function of (sourceCode, sourceLanguage,
\* targetLanguage) alone, whatever the earlier requests of the same process
\* were and whatever they left behind; and the text a line of a JavaScript
\* source is converted to depends on the line only, not on the depth the
\* converter is at (the Python-source converter passes nothing but the line
\* to JavaScriptStatement).
ConversionIsDeterministic ==
  /\ pc = "converted" =>
       convertedCode = TargetCode(sourceCode, sourceLanguage, targetLanguage)
  /\ (pc = "convertJavaScriptToSwift" /\ i <= Len(lines)) =>
       SwiftStatement(Trim(lines[i]), indentLevel).text
         = SwiftStatement(Trim(lines[i]), 0).text
  /\ (pc = "convertJavaScriptToPython" /\ i <= Len(lines)) =>
       PythonStatement(Trim(lines[i]), indentLevel).text
         = PythonStatement(Trim(lines[i]), 0).text

\* The second request of a process is converted after a first one.
SecondConversionDone ==
  /\ served = 1
  /\ pc = "converted"
  /\ sourceLanguage = "javascript" /\ targetLanguage = "swift"
  /\ sourceCode = "}\nlet y = 1;"
  /\ convertedCode = TargetCode(sourceCode, "javascript", "swift")

\* C12: calls of the handler in progress together do not interfere.  In
\* every interleaving of the steps of MaxCalls calls, each call that has
\* finished - the running one or one that is waiting - holds the code its
\* request is converted to when it runs alone.
ConcurrentCallsDoNotInterfere ==
  /\ pc = "converted" =>
       convertedCode = TargetCode(sourceCode, sourceLanguage, targetLanguage)
  /\ \A k \in 1 .. Len(suspended) :
       suspended[k].pc = "converted" =>
         suspended[k].convertedCode
           = TargetCode(suspended[k].sourceCode, suspended[k].sourceLanguage,
                        suspended[k].targetLanguage)

\* A call has finished at depth 1 while another one waits in the middle of
\* its loop, at depth 1 as well.
FinishedWhileOtherInLoop ==
  /\ pc = "converted"
  /\ sourceLanguage = "javascript" /\ targetLanguage = "python"
  /\ indentLevel = 1
  /\ Len(suspended) = 1
  /\ suspended[1].pc = "convertJavaScriptToSwift"
  /\ suspended[1].i = 2
  /\ suspended[1].indentLevel = 1

\* C13: POST /api/convert answers 400 when the body fails the validation and
\* 200 with the converted code in every other case, and no other status; a
\* request is answered exactly when a status is set.  (A converter that
\* throws is answered by the inner catch block, with 200 as well.)
StatusFollowsValidation ==
  /\ status \in { 0, 200, 400 }
  /\ status # 0 <=> pc = "responded"
  /\ pc = "responded" => status = (IF valid THEN 200 ELSE 400)
  /\ (pc = "responded" /\ valid) =>
       convertedCode = TargetCode(sourceCode, sourceLanguage, targetLanguage)

\* An invalid body is answered after a valid one was.
InvalidAfterValidAnswered ==
  /\ served = 1
  /\ ~valid
  /\ pc = "responded"
  /\ status = 400
  /\ convertedCode # ""

\* C14: in the two JavaScript-source converters a step that raises
\* indentLevel (a function, if or for header, or a bare "{") and pushes a
\* line pushes it at the depth in force before the step: its indentation is
\* indentLevel before the step times the width of one level (2 columns for
\* Swift, 4 for Python).
OpeningLineAtPreviousDepth ==
  [][ ( /\ pc \in { "convertJavaScriptToSwift", "convertJavaScriptToPython" }
        /\ indentLevel' = indentLevel + 1
        /\ Len(convertedLines') = Len(convertedLines) + 1 )
      => InitialSpaces(Last(convertedLines'))
           = indentLevel * (IF pc = "convertJavaScriptToSwift" THEN 2 ELSE 4)
    ]_vars

\* convertJavaScriptToSwift has pushed a bare "{" of depth 0 with the
\* indentation of depth 1.
SwiftOpeningBraceIndented ==
  /\ pc = "convertJavaScriptToSwift"
  /\ i = 2
  /\ Trim(lines[1]) = "{"
  /\ convertedLines = << "  {" >>
  /\ indentLevel = 1

\* C15: in convertPythonToJavaScript a line whose width lies strictly between
\* two adjacent entries of indentStack - the dedent loop has popped the
\* larger one for it and stopped above the smaller one - is treated as a line
\* of an existing level: the step that emits it pushes no entry, and it does
\* not throw.
WidthBetweenLevelsPushesNothing ==
  [][ (pc = "dedent" /\ pc' # "dedent")
      => (indentStack' = indentStack /\ pc' # "thrown") ]_vars

\* The line "  z()" after "        y = 1" has closed the level of width 8 and
\* opened one of width 2.
WidthBetweenLevelsPushed ==
  /\ pc = "convertPythonToJavaScript"
  /\ lines = << "        y = 1", "  z()" >>
  /\ i = 3
  /\ indentStack = << 0, 2 >>
  /\ convertedLines = << "  let y = 1;", "}", "  z();" >>

\* C16: in convertPythonToJavaScript, for a code line narrower than the code
\* line before it (initialSpaces < currentIndent): every iteration of the
\* dedent loop runs while the top of indentStack exceeds the line's width and
\* the base entry is not the top, pops exactly that top and pushes exactly
\* one "}" line, staying at the same source line; and the line itself is
\* pushed after those "}" lines, at a moment when the top of indentStack is
\* <= its width, which still holds after the step.
DedentPopsDownToWidth ==
  /\ [][ pc' = "dedent" =>
           /\ InitialSpaces(lines[i]) < currentIndent
           /\ Len(indentStack) > 1
           /\ Top(indentStack) > InitialSpaces(lines[i])
           /\ indentStack' = Pop(indentStack)
           /\ Len(convertedLines') = Len(convertedLines) + 1
           /\ SubSeq(convertedLines', 1, Len(convertedLines)) = convertedLines
           /\ Trim(Last(convertedLines')) = "}"
           /\ i' = i ]_vars
  /\ [][ ( /\ pc \in { "convertPythonToJavaScript", "dedent" }
            /\ i' = i + 1
            /\ IsCodeLine(lines[i])
            /\ InitialSpaces(lines[i]) < currentIndent )
          => /\ Top(indentStack) <= InitialSpaces(lines[i])
             /\ Top(indentStack') <= InitialSpaces(lines[i])
             /\ Len(convertedLines') = Len(convertedLines) + 1
             /\ SubSeq(convertedLines', 1, Len(convertedLines))
                  = convertedLines
             /\ Trim(Last(convertedLines'))
                  = JavaScriptStatement(Trim(lines[i])) ]_vars

\* The line "  z()" is pushed after the "}" of the level of width 8 that
\* follows a level of width 2.
DedentedToMiddleLevel ==
  /\ pc = "convertPythonToJavaScript"
  /\ lines = << "  z()", "        y = 1", "  z()" >>
  /\ i = 4
  /\ indentStack = << 0, 2 >>
  /\ convertedLines = << "  z();", "    let y = 1;", "  }", "  z();" >>

\* The step is not one of the given converter on the given line, or the line
\* it pushes is text, indentation aside.
Converts(converter, line, text) ==
  (pc' = converter /\ i' = i + 1 /\ Trim(lines[i]) = line)
    => Trim(Last(convertedLines')) = text

\* C17: convertJavaScriptToSwift turns a three-clause for header with the
\* operator "<" into the half-open range start..<end, with "<=" into the
\* closed range start...end, and with ">" or ">=" into a ..< range followed
\* by a comment that quotes the original condition v OP end; each of these
\* steps raises indentLevel by 1.
SwiftForLoopRanges ==
  [][ /\ Converts("convertJavaScriptToSwift",
                   "for (let i = 0; i < 10; i++) {", "for i in 0..<10 {")
      /\ Converts("convertJavaScriptToSwift",
                   "for (let i = 0; i <= 10; i++) {", "for i in 0...10 {")
      /\ Converts("convertJavaScriptToSwift",
                   "for (let i = 9; i > 0; i--) {",
                   "// Note: This for loop might need manual adjustment\n"
                     \o "for i in 9..<0 { // Original condition was i > 0")
      /\ Converts("convertJavaScriptToSwift",
                   "for (let i = 9; i >= 0; i--) {",
                   "// Note: This for loop might need manual adjustment\n"
                     \o "for i in 9..<0 { // Original condition was i >= 0")
      /\ ( /\ pc' = "convertJavaScriptToSwift"
            /\ i' = i + 1
            /\ StartsWith(Trim(lines[i]), "for (let i = ") )
          => indentLevel' = indentLevel + 1
    ]_vars

\* convertJavaScriptToSwift has turned a header with "<=" into a half-open
\* range whose upper bound starts with "=".
SwiftForLoopClosedRangeLost ==
  /\ pc = "convertJavaScriptToSwift"
  /\ lines = << "for (let i = 0; i <= 10; i++) {" >>
  /\ i = 2
  /\ convertedLines = << "  for i in 0..<= 10 {" >>
  /\ indentLevel = 1

\* C18: convertPythonToJavaScript turns every line "for x in <iterable>:"
\* into a line that ends in "{": the counting loop from 0 for range(a), from
\* a for range(a, b), with the step c for range(a, b, c) - whatever the
\* expressions a, b, c are - and a for ... of loop for an iterable that is
\* not a call of range.
JavaScriptForLoopForms ==
  [][ /\ Converts("convertPythonToJavaScript", "for i in range(3):",
                   "for (let i = 0; i < 3; i++) {")
      /\ Converts("convertPythonToJavaScript", "for i in range(1, 3):",
                   "for (let i = 1; i < 3; i++) {")
      /\ Converts("convertPythonToJavaScript", "for i in range(1, 9, 2):",
                   "for (let i = 1; i < 9; i += 2) {")
      /\ Converts("convertPythonToJavaScript", "for x in items:",
                   "for (let x of items) {")
      /\ Converts("convertPythonToJavaScript", "for i in range(max(a, b)):",
                   "for (let i = 0; i < max(a, b); i++) {")
      /\ Converts("convertPythonToJavaScript", "for i in reversed(range(3)):",
                   "for (let i of reversed(range(3))) {")
      /\ ( /\ pc' = "convertPythonToJavaScript"
            /\ i' = i + 1
            /\ StartsWith(Trim(lines[i]), "for ") )
          => EndsWith(Last(convertedLines'), "{")
    ]_vars

\* convertPythonToJavaScript has split the one argument of range at the
\* comma inside it.
RangeArgumentSplit ==
  /\ pc = "convertPythonToJavaScript"
  /\ lines = << "for i in range(max(a, b)):" >>
  /\ i = 2
  /\ convertedLines = << "for (let i = max(a; i < b); i++) {" >>

\* C19: the condition the two JavaScript-source converters emit for an
\* "if (cond)" line is cond with every "===" replaced by "==" and every
\* "!==" by "!=", the operators "==", "!=", "<=", ">=" being left as they
\* are; the emitted line contains neither "===" nor "!==".
IfConditionOperators ==
  [][ \A c \in { << "a === b", "a == b" >>, << "a !== b", "a != b" >>,
                 << "a == b", "a == b" >>, << "a != b", "a != b" >>,
                 << "a <= b", "a <= b" >>, << "a >= b", "a >= b" >>,
                 << "a === b && c !== d", "a == b && c != d" >> } :
        /\ Converts("convertJavaScriptToSwift", "if (" \o c[1] \o ") {",
                     "if " \o c[2] \o " {")
        /\ Converts("convertJavaScriptToPython", "if (" \o c[1] \o ") {",
                     "if " \o c[2] \o ":")
        /\ ( /\ pc' \in { "convertJavaScriptToSwift",
                           "convertJavaScriptToPython" }
              /\ i' = i + 1
              /\ Trim(lines[i]) = "if (" \o c[1] \o ") {" )
            => /\ ~Includes(Last(convertedLines'), "===")
               /\ ~Includes(Last(convertedLines'), "!==")
    ]_vars

\* convertJavaScriptToPython has converted a condition with both strict
\* operators.
StrictOperatorsReplaced ==
  /\ pc = "convertJavaScriptToPython"
  /\ lines = << "if (a === b && c !== d) {" >>
  /\ i = 2
  /\ convertedLines = << "if a == b && c != d:" >>

\* Lines that two rules accept and that both orders of the rules hand to the
\* same one, with the line they are converted to: a comment that holds a
\* function header, a declaration of a function expression, an if whose
\* condition calls console.log, a returned console.log call (JavaScript); a
\* comment that holds a def, an assignment to a name that starts like a
\* return statement (Python).
TwoRuleLines ==
  { << "convertJavaScriptToPython", "// function f() {",
       "#  function f() {" >>,
    << "convertJavaScriptToPython", "const f = function g(a) {",
       "def g(a):" >>,
    << "convertJavaScriptToPython", "if (console.log(x)) {",
       "if console.log(x):" >>,
    << "convertJavaScriptToPython", "return console.log(x);",
       "return print(x)" >>,
    << "convertPythonToJavaScript", "# def f():", "//  def f():" >>,
    << "convertPythonToJavaScript", "return = 5", "let return = 5;" >> }

\* C20 as the specification states it: every converter classifies a line by
\* the first matching rule of the one list comment, function, bare brace,
\* declaration or assignment, if, for, print/log, return, plain; so the
\* Python line "if = a[1:2]", which the assignment rule and the if rule both
\* accept, is converted as an assignment.
OnePriorityList ==
  [][ \A c \in TwoRuleLines \cup
              { << "convertPythonToJavaScript", "if = a[1:2]",
                   "let if = a[1:2];" >> } :
        Converts(c[1], c[2], c[3]) ]_vars

\* C20, amended: each converter classifies a line by the first matching rule
\* of its own list.  For JavaScript sources: comment, function, bare brace,
\* declaration, if, for, console.log, return, plain.  For Python sources:
\* comment, def, if, for, print, assignment, return, plain - the assignment
\* rule comes after if, for and print, so "if = a[1:2]" is converted as an
\* if statement.
PriorityListPerConverter ==
  [][ \A c \in TwoRuleLines \cup
              { << "convertPythonToJavaScript", "if = a[1:2]",
                   "if (= a[1) {" >> } :
        Converts(c[1], c[2], c[3]) ]_vars

\* convertPythonToJavaScript has converted a line that the assignment rule
\* accepts by its if rule.
AssignmentHandledAsIf ==
  /\ pc = "convertPythonToJavaScript"
  /\ lines = << "if = a[1:2]" >>
  /\ i = 2
  /\ Test("if = a[1:2]", AssignRegex)
  /\ Test("if = a[1:2]", PythonIfRegex)
  /\ convertedLines = << "if (= a[1) {" >>

\* C21: for every validated request the handler attempts the LLM conversion
\* first and calls a converter of the line-oriented pipeline only after that
\* attempt has failed: the step the handler takes right after the validation
\* is not the call of convertJavaScriptToSwift, convertJavaScriptToPython or
\* convertPythonToJavaScript.
LlmConversionFirst ==
  [][ pc = "handler" =>
        pc' \notin { "convertJavaScriptToSwift", "convertJavaScriptToPython",
                     "convertPythonToJavaScript" } ]_vars

\* The first request of a process has been validated and the handler is at
\* the first line of convertJavaScriptToPython, nothing else having run.
PipelineEnteredFirst ==
  /\ served = 0
  /\ valid
  /\ status = 0
  /\ pc = "convertJavaScriptToPython"
  /\ i = 1
  /\ convertedLines = << >>
  /\ convertedCode = ""

\* One iteration of a loop of a converter of routes.ts gives its variables
\* the values that the iteration of its namesake of github-api.ts gives them,
\* started from the same values.  A line of convertPythonToJavaScript that
\* went through the dedent loop is compared with the copy run from the
\* first line; a step of the flush loop leaves the result of the flush loop
\* of the copy as it was.
SameIteration ==
  /\ (pc = "convertJavaScriptToSwift" /\ i' = i + 1) =>
       GitHubJavaScriptToSwift(lines, i, i, indentLevel, convertedLines)
         = [indentLevel |-> indentLevel', convertedLines |-> convertedLines']
  /\ (pc = "convertJavaScriptToPython" /\ i' = i + 1) =>
       GitHubJavaScriptToPython(lines, i, i, indentLevel, inFunction,
                                convertedLines)
         = [indentLevel |-> indentLevel', inFunction |-> inFunction',
            convertedLines |-> convertedLines']
  /\ (pc = "convertPythonToJavaScript" /\ i' = i + 1) =>
       GitHubPythonToJavaScript(lines, i, i, FALSE, indentStack,
                                currentIndent, convertedLines)
         = [indentStack |-> indentStack', currentIndent |-> currentIndent',
            convertedLines |-> convertedLines']
  /\ (pc = "dedent" /\ i' = i + 1) =>
       GitHubPythonToJavaScript(lines, 1, i, FALSE, << 0 >>, 0, << >>)
         = [indentStack |-> indentStack', currentIndent |-> currentIndent',
            convertedLines |-> convertedLines']
  /\ (pc = "convertPythonToJavaScript" /\ i > Len(lines)
        /\ pc' = "convertPythonToJavaScript") =>
       GitHubPythonToJavaScript(lines, i, i - 1, TRUE, indentStack,
                                currentIndent, convertedLines)
         = GitHubPythonToJavaScript(lines, i, i - 1, TRUE, indentStack',
                                    currentIndent', convertedLines')

\* The code the handler of routes.ts holds when a converter has returned is
\* the code the fallback of convertCodeWithGitHub holds for the request.
\* The copy is run again from the first line for the sources that are shorter
\* than MaxLines; for the longest ones SameIteration has compared every
\* iteration, and both copies return convertedLines.join("\n").
SameCode ==
  (pc' = "converted" /\ Len(lines) < MaxLines) =>
    convertedCode'
      = GitHubTargetCode(sourceCode, sourceLanguage, targetLanguage)

BlankAndCommentKeepDepth ==
  [][ ( /\ pc \in { "convertJavaScriptToSwift", "convertJavaScriptToPython",
                     "convertPythonToJavaScript", "dedent" }
        /\ i' = i + 1
        /\ \/ Trim(lines[i]) = ""
           \/ StartsWith(Trim(lines[i]),
                         IF sourceLanguage = "python" THEN "#" ELSE "//") )
      => /\ indentLevel' = indentLevel
         /\ inFunction' = inFunction
         /\ indentStack' = indentStack
         /\ currentIndent' = currentIndent
         /\ closes' = closes
         /\ Len(convertedLines') = Len(convertedLines) + 1
         /\ SubSeq(convertedLines', 1, Len(convertedLines)) = convertedLines
         /\ Trim(lines[i]) = "" => Last(convertedLines') = ""
         /\ (sourceLanguage = "python" /\ Trim(lines[i]) # "") =>
              Last(convertedLines')
                = Repeat("  ", Len(indentStack) - 1) \o "// "
                    \o Substring(Trim(lines[i]), 2)
    ]_vars

\* The comment "  # note" after the code line "        y = 1" is pushed at
\* depth 1 and the level of width 8 is still open.
CommentBelowCodeKeepsLevel ==
  /\ pc = "convertPythonToJavaScript"
  /\ lines = << "        y = 1", "  # note" >>
  /\ i = 3
  /\ indentStack = << 0, 8 >>
  /\ currentIndent = 8
  /\ closes = 0
  /\ convertedLines = << "  let y = 1;", "  //  note" >>

\* The source blocks open before line k of ls: the lines before it that end
\* in "{" less those that are a bare "}".
OpenBlocks(ls, k) ==
  Cardinality({ j \in 1 .. k - 1 : EndsWith(Trim(ls[j]), "{") })
    - Cardinality({ j \in 1 .. k - 1 : Trim(ls[j]) = "}" })

\* ls is brace-balanced, every "{" is the last character of a function, if
\* or for header line, and every "}" stands alone on its line.
BracesOnHeadersOnly(ls) ==
  /\ \A k \in 1 .. Len(ls) :
       /\ Includes(ls[k], "}") => Trim(ls[k]) = "}"
       /\ Includes(ls[k], "{") =>
            /\ CountChar(ls[k], "{") = 1
            /\ EndsWith(Trim(ls[k]), "{")
            /\ \/ Test(Trim(ls[k]), FunctionTestRegex)
               \/ Test(Trim(ls[k]), IfTestRegex)
               \/ Test(Trim(ls[k]), ForTestRegex)
       /\ OpenBlocks(ls, k) >= 0
  /\ OpenBlocks(ls, Len(ls) + 1) = 0

\* C24: while convertJavaScriptToPython converts a brace-balanced source in
\* which every "{" ends a function, if or for header line and every "}"
\* stands alone, indentLevel - the depth the next line is indented at - is
\* the number of source blocks open at that line, and it is 0 after the last
\* line.
PythonDepthIsOpenBlocks ==
  (pc = "convertJavaScriptToPython" /\ BracesOnHeadersOnly(lines))
    => indentLevel = OpenBlocks(lines, i)

\* convertJavaScriptToPython is one level deep after a for header that opens
\* no block, in a source without any brace.
PythonDepthWithoutBlock ==
  /\ pc = "convertJavaScriptToPython"
  /\ lines = << "for (let i = 0; i <= 10; i++)", "  console.log(i);",
                "  console.log(i);" >>
  /\ i = 4
  /\ indentLevel = 1
  /\ BracesOnHeadersOnly(lines)

\* A function, if or for header line that holds no "{".
IsHeaderWithoutBrace(line) ==
  /\ ~Includes(line, "{")
  /\ \/ Test(Trim(line), FunctionTestRegex)
     \/ Test(Trim(line), IfTestRegex)
     \/ Test(Trim(line), ForTestRegex)

\* C25: in convertJavaScriptToSwift and convertJavaScriptToPython a source
\* that starts with a function, if or for header followed by a line that is
\* a bare "{" is at depth 1 after the two lines, as after a header with a
\* trailing "{", and a bare "}" on the third line returns it to depth 0.
BraceOnNextLineOneLevel ==
  (/\ pc \in { "convertJavaScriptToSwift", "convertJavaScriptToPython" }
   /\ Len(lines) >= 2
   /\ IsHeaderWithoutBrace(lines[1])
   /\ Trim(lines[2]) = "{")
    => /\ i = 3 => indentLevel = 1
       /\ (i = 4 /\ Trim(lines[3]) = "}") => indentLevel = 0

\* convertJavaScriptToSwift has closed the block of a for header whose "{"
\* stood on the next line and is still one level deep.
SwiftBraceOnNextLineClosed ==
  /\ pc = "convertJavaScriptToSwift"
  /\ lines = << "for (let i = 0; i <= 10; i++)", "{", "}" >>
  /\ i = 4
  /\ indentLevel = 1

\* The code line of ls before line k (0 when there is none), blank and
\* comment lines ignored.
PreviousCodeLine(ls, k) ==
  LET before == { j \in 1 .. k - 1 : IsCodeLine(ls[j]) }
  IN  IF before = {} THEN 0
      ELSE CHOOSE j \in before : \A h \in before : h <= j

\* convertPythonToJavaScript emits the line with a trailing "{".
EmittedWithBrace(line) == EndsWith(JavaScriptStatement(Trim(line)), "{")

\* Every increase of indentation in ls is on the code line that follows a
\* line emitted with a trailing "{", and every such line is followed by a
\* deeper code line.
IndentedUnderHeaders(ls) ==
  \A k \in 1 .. Len(ls) :
    IsCodeLine(ls[k]) =>
      LET p == PreviousCodeLine(ls, k)
          w == IF p = 0 THEN 0 ELSE InitialSpaces(ls[p])
      IN  /\ InitialSpaces(ls[k]) > w => (p # 0 /\ EmittedWithBrace(ls[p]))
          /\ EmittedWithBrace(ls[k]) =>
               \E n \in k + 1 .. Len(ls) :
                 /\ IsCodeLine(ls[n])
                 /\ PreviousCodeLine(ls, n) = k
                 /\ InitialSpaces(ls[n]) > InitialSpaces(ls[k])

\* The number of entries of out that end in "{".
OpeningLines(out) ==
  Cardinality({ j \in 1 .. Len(out) : EndsWith(out[j], "{") })

\* C26: when convertPythonToJavaScript has returned for a source indented
\* only under header lines, each of them followed by a deeper line, the
\* emitted lines that end in "{" are as many as the synthetic "}" lines.
JavaScriptBraceBalance ==
  (/\ pc = "converted"
   /\ sourceLanguage = "python" /\ targetLanguage = "javascript"
   /\ IndentedUnderHeaders(lines))
    => OpeningLines(convertedLines) = closes

\* A body that is indented 8 under its header and followed by a line
\* indented 2 was converted: one "{" and two synthetic "}".
JavaScriptBodyClosedTwice ==
  /\ pc = "converted"
  /\ lines = << "if x == 5:", "        y = 1", "  z()" >>
  /\ IndentedUnderHeaders(lines)
  /\ OpeningLines(convertedLines) = 1
  /\ closes = 2

\* The lines of ls before line k that convertJavaScriptToPython drops: a bare
\* brace or a lone semicolon.
DroppedBefore(ls, k) ==
  Cardinality({ j \in 1 .. k - 1 : Trim(ls[j]) \in { "{", "}", ";" } })

\* The number of output entries when the loop is about to visit line i.
EntryCounts ==
  /\ pc = "convertJavaScriptToSwift" => Len(convertedLines) = i - 1
  /\ pc \in { "convertPythonToJavaScript", "dedent" }
       => Len(convertedLines) = i - 1 + closes
  /\ pc = "convertJavaScriptToPython"
       => Len(convertedLines) = i - 1 - DroppedBefore(lines, i)

\* A step of a converter leaves the entries written so far in place, adds at
\* most one entry, and never moves back in the input; a blank line adds "".
EntriesAppended ==
  (/\ pc \in { "convertJavaScriptToSwift", "convertJavaScriptToPython",
               "convertPythonToJavaScript", "dedent" }
   /\ pc' # "thrown")
    => /\ i' \in { i, i + 1 }
       /\ \/ convertedLines' = convertedLines
          \/ /\ Len(convertedLines') = Len(convertedLines) + 1
             /\ SubSeq(convertedLines', 1, Len(convertedLines)) = convertedLines
       /\ (i' = i + 1 /\ Trim(lines[i]) = "")
            => convertedLines' = Append(convertedLines, "")

\* C27: the output entries follow the order of the input lines and their
\* number is fixed by the input: convertJavaScriptToSwift has one entry per
\* line, convertPythonToJavaScript one per line and one per synthetic "}",
\* convertJavaScriptToPython one per line except the bare braces and lone
\* semicolons, which it drops, while it keeps blank lines.
EntriesFollowInput == []EntryCounts /\ [][EntriesAppended]_vars

\* convertJavaScriptToPython has returned two entries for three lines, one
\* of them a bare "}" and one blank.
PythonDroppedBraceKeptBlank ==
  /\ pc = "converted"
  /\ targetLanguage = "python"
  /\ lines = << "  return a + b;", "}", "" >>
  /\ convertedLines = << "return a + b", "" >>

\* One step of a loop: the main loop moves to the next line or stays on the
\* line, and a step that emits a synthetic "}" stays on the line and removes
\* one entry of the stack, never the base entry.
LoopStep ==
  pc \in { "convertJavaScriptToSwift", "convertJavaScriptToPython",
           "convertPythonToJavaScript", "dedent" }
    => /\ i' \in { i, i + 1 }
       /\ i' <= Len(lines) + 1
       /\ closes' # closes
            => /\ closes' = closes + 1
               /\ i' = i
               /\ Len(indentStack') = Len(indentStack) - 1
               /\ Len(indentStack') >= 1
       /\ closes' = closes => (i' = i + 1 \/ pc' \in { "converted", "thrown" })

\* C28: every call of a converter returns; the main loop visits the lines
\* one after the other, each iteration of the dedent loop and of the flush
\* loop removes one entry of the stack and leaves the base entry, and the
\* iterations of the two loops are at most the entries pushed.
ConvertersTerminate ==
  /\ <>(pc = "converted" /\ i = Len(lines) + 1)
  /\ [](closes <= pushes)
  /\ [][LoopStep]_vars

\* convertPythonToJavaScript has returned after one iteration of the dedent
\* loop and one of the flush loop.
ReturnedAfterDedentAndFlush ==
  /\ pc = "converted"
  /\ lines = << "def add(a, b):", "    return a + b", "  z()" >>
  /\ i = 4
  /\ pushes = 2 /\ closes = 2
  /\ indentStack = << 0 >>

\* The indent stack of convertPythonToJavaScript starts at 0 and increases
\* strictly from bottom to top.
StackIncreasing ==
  pc \in { "convertPythonToJavaScript", "dedent" }
    => /\ Len(indentStack) >= 1
       /\ indentStack[1] = 0
       /\ \A k \in 1 .. Len(indentStack) - 1 :
            indentStack[k] < indentStack[k + 1]

\* The iteration of a code line ends with the width of the line on top of
\* the stack and in currentIndent.
AfterCodeLine ==
  (/\ pc \in { "convertPythonToJavaScript", "dedent" }
   /\ i' = i + 1
   /\ IsCodeLine(lines[i]))
    => /\ indentStack'[Len(indentStack')] = InitialSpaces(lines[i])
       /\ currentIndent' = InitialSpaces(lines[i])

\* C29: in convertPythonToJavaScript the indent stack is at every point
\* strictly increasing from its bottom entry 0 to its top, and after every
\* processed code line its top is currentIndent and the width of the
\* leading white space of that line.
StackTracksIndentation == []StackIncreasing /\ [][AfterCodeLine]_vars

\* Three lines, each deeper than the one before, have been processed.
ThreeLevelsOnStack ==
  /\ pc = "convertPythonToJavaScript"
  /\ lines = << "def add(a, b):", "    return a + b", "        y = 1" >>
  /\ i = 4
  /\ indentStack = << 0, 4, 8 >>
  /\ currentIndent = 8

\* C30: in convertPythonToJavaScript every push on the indent stack is
\* matched by one pop and one synthetic "}": at any point the synthetic "}"
\* lines emitted so far are the pushes less the entries above the base entry
\* of the stack, and at return the stack is [0] and the synthetic "}" lines
\* are as many as the pushes.
PushesMatchedByCloses ==
  /\ pc \in { "convertPythonToJavaScript", "dedent" }
       => closes = pushes - (Len(indentStack) - 1)
  /\ (/\ pc = "converted"
      /\ sourceLanguage = "python" /\ targetLanguage = "javascript")
       => /\ indentStack = << 0 >>
          /\ closes = pushes

\* The dedent loop has closed one of two pushed levels.
OneOfTwoLevelsClosed ==
  /\ pc = "dedent"
  /\ lines = << "    return a + b", "        y = 1", "x = 1" >>
  /\ i = 3
  /\ pushes = 2
  /\ closes = 1
  /\ indentStack = << 0, 4 >>

====
